---- MODULE Spec2Model ----
(***************************************************************************)
(* A model of the computation core of src/main.rs (sidereal birth chart):  *)
(* whole-sign house cusps, divisional-chart sign mappings, the Vimshottari *)
(* dasha chain and the ashtakavarga bindu tables.                          *)
(*                                                                         *)
(* The program is a set of pure functions.  Each specification below draws *)
(* the inputs of one group of functions in its initial states, and every   *)
(* action applies one function to those inputs and records what it returns *)
(* in `result`.                                                            *)
(*                                                                         *)
(* Real numbers (f64 in the source) are held exactly on integer grids:     *)
(*   - an ascendant is [deg, frac]: whole degrees plus 1e-9 degree units,  *)
(*     so that rounding to 8 decimals is a real operation;                 *)
(*   - a planet longitude is an integer number of 1e-6 degrees, so that    *)
(*     the source's literals 13.333333 and 3.333333 are exact;             *)
(*   - a duration in years is an integer number of year/120^3, so that     *)
(*     three nested divisions by TOTAL_CYCLE are exact.                    *)
(* Arithmetic is the exact arithmetic of the reals; f64 rounding error is  *)
(* outside the model.                                                      *)
(***************************************************************************)
EXTENDS Integers, Sequences, FiniteSets, TLC

VARIABLES
    asc,             \* asc_sid_deg: the ascendant handed to the house functions
    lon,             \* sidereal_long_deg: a planet longitude handed to a chart mapping
    moon_longitude,  \* calculate_vimsottari_dasha's first argument
    birth_jd,        \* calculate_vimsottari_dasha's second argument (whole days)
    planets,         \* &[PlanetPosition]: sequence of [name, sidereal_long_deg]
    args,            \* the arguments of the other functions, as a record
    result           \* [fn |-> function applied last, val |-> what it returned]

vars == <<asc, lon, moon_longitude, birth_jd, planets, args, result>>

(***************************************************************************)
(* Units and bounds                                                        *)
(***************************************************************************)
Nano == 1000 * 1000 * 1000     \* 1e-9 degree units per degree
Micro == 1000 * 1000           \* 1e-6 degree units per degree
FullCircle == 360 * Micro      \* 360 degrees on the longitude grid
SignSpan == 30 * Micro         \* 30.0 degrees on the longitude grid

\* Ascendants range over -MaxAscDeg..MaxAscDeg whole degrees, with the fractions
\* AscFracs: rem_euclid has negative and >= 360 inputs to normalize.
MaxAscDeg == 400
AscFracs == {0, 1, 4, 5, 123456785, Nano \div 2, Nano - 6, Nano - 5, Nano - 1}
AscInputs == {[deg |-> d, frac |-> f] : d \in (0 - MaxAscDeg)..MaxAscDeg, f \in AscFracs}

NoResult == [fn |-> "none", val |-> <<>>]
NoArgs == <<>>

(***************************************************************************)
(* Whole-sign houses                                                       *)
(***************************************************************************)
\* f64::rem_euclid(360.0) on an angle [deg, frac]
rem_euclid_360(a) == [deg |-> a.deg % 360, frac |-> a.frac]

\* (cusp * 100_000_000.0).round() / 100_000_000.0 : round half away from zero to
\* 8 decimals; the argument is never negative here.
round_8_decimals(a) ==
    LET f == ((a.frac + 5) \div 10) * 10
    IN  IF f = Nano THEN [deg |-> a.deg + 1, frac |-> 0]
                    ELSE [deg |-> a.deg, frac |-> f]

\* A mix of the two policies: house 1 keeps the ascendant's in-sign offset, the
\* other houses start at sign boundaries.
whole_sign_houses_mixed(asc_sid_deg) ==
    LET asc_normalized == rem_euclid_360(asc_sid_deg)
        sign_index == asc_normalized.deg \div 30
        sign_start_deg == sign_index * 30
    IN  [i \in 1..12 |->
            IF i = 1 THEN asc_normalized
            ELSE rem_euclid_360([deg |-> sign_start_deg + (i - 1) * 30, frac |-> 0])]

calculate_whole_sign_houses(asc_sid_deg) ==
    LET asc_normalized == rem_euclid_360(asc_sid_deg)
        sign_index == asc_normalized.deg \div 30
        sign_start_deg == sign_index * 30
    IN  [i \in 1..12 |->
            rem_euclid_360([deg |-> sign_start_deg + (i - 1) * 30, frac |-> 0])]

compute_whole_sign_houses(asc_sid_deg) ==
    LET asc_normalized == rem_euclid_360(asc_sid_deg)
        sign_index == asc_normalized.deg \div 30
        sign_start_deg == sign_index * 30
        offset == [deg |-> asc_normalized.deg - sign_start_deg,
                   frac |-> asc_normalized.frac]
    IN  [i \in 1..12 |->
            LET base == sign_start_deg + (i - 1) * 30
                cusp == rem_euclid_360([deg |-> base + offset.deg, frac |-> offset.frac])
            IN  round_8_decimals(cusp)]

(***************************************************************************)
(* Specification of the house functions                                    *)
(***************************************************************************)
InitHouses ==
    /\ asc \in AscInputs
    /\ lon = 0
    /\ moon_longitude = 0
    /\ birth_jd = 0
    /\ planets = <<>>
    /\ args = NoArgs
    /\ result = NoResult

CalculateWholeSignHouses ==
    /\ result' = [fn |-> "calculate_whole_sign_houses",
                  val |-> calculate_whole_sign_houses(asc)]
    /\ UNCHANGED <<asc, lon, moon_longitude, birth_jd, planets, args>>

ComputeWholeSignHouses ==
    /\ result' = [fn |-> "compute_whole_sign_houses",
                  val |-> compute_whole_sign_houses(asc)]
    /\ UNCHANGED <<asc, lon, moon_longitude, birth_jd, planets, args>>

NextHouses == CalculateWholeSignHouses \/ ComputeWholeSignHouses

SpecHouses == InitHouses /\ [][NextHouses]_vars

IsHouseResult == result.fn \in {"calculate_whole_sign_houses", "compute_whole_sign_houses"}

\* b - a is exactly 30 degrees modulo 360
ThirtyApart(a, b) == (b.deg - a.deg) % 360 = 30 /\ b.frac = a.frac

C2_House1AtSignStart ==
    IsHouseResult =>
        result.val[1] = [deg |-> 30 * ((asc.deg % 360) \div 30), frac |-> 0]

(***************************************************************************)
(* Divisional-chart sign mappings                                          *)
(***************************************************************************)
\* Longitudes handed to the chart mappings: in every sign, LonSteps evenly spaced
\* positions and the grid points just below and above each.
LonSteps == 24
LonInputs ==
    {x \in {s * SignSpan + k * (SignSpan \div LonSteps) + e :
                s \in 0..11, k \in 0..LonSteps, e \in {0 - 1, 0, 1}} :
        x >= 0 /\ x < FullCircle}

\* floor(x * n / d) for x >= 0, computed without leaving 32 bits
floor_mul_div(x, n, d) == (x \div d) * n + ((x % d) * n) \div d

\* The twelve sign names of get_rasi_name, in ASCII (the source's diacritics dropped)
rasi_names ==
    <<"Mesa", "Vrsabha", "Mithuna", "Karka", "Simha", "Kanya",
      "Tula", "Vrscika", "Dhanus", "Makara", "Kumbha", "Mina">>

\* get_rasi_name: the name at `index`, or the unreachable!() arm
get_rasi_name(index) ==
    IF index \in 0..11 THEN rasi_names[index + 1] ELSE "unreachable"

compute_rasi(sidereal_long_deg) ==
    LET rasi == (sidereal_long_deg \div SignSpan) % 12
    IN  get_rasi_name(rasi)

compute_hora(sidereal_long_deg) ==
    LET pos_in_rasi == sidereal_long_deg % SignSpan
        rasi == sidereal_long_deg \div SignSpan
        hora == IF rasi % 2 = 0
                THEN (IF pos_in_rasi < 15 * Micro THEN 4 ELSE 0)
                ELSE (IF pos_in_rasi < 15 * Micro THEN 3 ELSE 1)
    IN  get_rasi_name(hora)

compute_drekkana(sidereal_long_deg) ==
    LET rasi == sidereal_long_deg \div SignSpan
        pos_in_rasi == sidereal_long_deg % SignSpan
        drekkana == ((pos_in_rasi \div (10 * Micro)) + rasi * 4) % 12
    IN  get_rasi_name(drekkana)

compute_chaturtamsa(sidereal_long_deg) ==
    LET rasi == sidereal_long_deg \div SignSpan
        pos_in_rasi == sidereal_long_deg % SignSpan
        chaturtamsa == ((pos_in_rasi \div 7500000) + rasi * 4) % 12
    IN  get_rasi_name(chaturtamsa)

compute_panchamsa(sidereal_long_deg) ==
    LET rasi == sidereal_long_deg \div SignSpan
        pos_in_rasi == sidereal_long_deg % SignSpan
        panchamsa == ((pos_in_rasi \div (6 * Micro)) + rasi * 5) % 12
    IN  get_rasi_name(panchamsa)

compute_shashtamsa(sidereal_long_deg) ==
    LET rasi == sidereal_long_deg \div SignSpan
        pos_in_rasi == sidereal_long_deg % SignSpan
        shashtamsa == ((pos_in_rasi \div (5 * Micro)) + rasi * 6) % 12
    IN  get_rasi_name(shashtamsa)

\* pos_in_rasi / (30.0 / 7.0) is pos_in_rasi * 7 / 30
compute_saptamsa(sidereal_long_deg) ==
    LET rasi == sidereal_long_deg \div SignSpan
        pos_in_rasi == sidereal_long_deg % SignSpan
        saptamsa == (floor_mul_div(pos_in_rasi, 7, SignSpan) + rasi * 7) % 12
    IN  get_rasi_name(saptamsa)

compute_ashtamsa(sidereal_long_deg) ==
    LET rasi == sidereal_long_deg \div SignSpan
        pos_in_rasi == sidereal_long_deg % SignSpan
        ashtamsa == ((pos_in_rasi \div 3750000) + rasi * 8) % 12
    IN  get_rasi_name(ashtamsa)

compute_navamsa(sidereal_long_deg) ==
    LET rasi == sidereal_long_deg \div SignSpan
        pos_in_rasi == sidereal_long_deg % SignSpan
        navamsa == (floor_mul_div(pos_in_rasi, 9, SignSpan) + rasi * 9) % 12
    IN  get_rasi_name(navamsa)

compute_dasamsa(sidereal_long_deg) ==
    LET rasi == sidereal_long_deg \div SignSpan
        pos_in_rasi == sidereal_long_deg % SignSpan
        dasamsa == ((pos_in_rasi \div (3 * Micro)) + rasi * 10) % 12
    IN  get_rasi_name(dasamsa)

compute_dwadasamsa(sidereal_long_deg) ==
    LET rasi == sidereal_long_deg \div SignSpan
        pos_in_rasi == sidereal_long_deg % SignSpan
        dwadasamsa == ((pos_in_rasi \div 2500000) + rasi * 12) % 12
    IN  get_rasi_name(dwadasamsa)

\* The inline formula shared by the D11, D16, D20, D24, D27, D30, D40, D45 and D60
\* chart builders, each with its own literal n:
\*   ((lon / (30.0 / n)).floor() as i32 + ((lon / 30.0).floor() as i32 * n)) % 12
\* The first term divides the whole longitude, not the position in the sign.
inline_division(sidereal_long_deg, n) ==
    (floor_mul_div(sidereal_long_deg, n, SignSpan)
        + ((sidereal_long_deg \div SignSpan) * n)) % 12

rudramsa(sidereal_long_deg) == inline_division(sidereal_long_deg, 11)
shodasamsa(sidereal_long_deg) == inline_division(sidereal_long_deg, 16)
vimsamsa(sidereal_long_deg) == inline_division(sidereal_long_deg, 20)
chaturvimsamsa(sidereal_long_deg) == inline_division(sidereal_long_deg, 24)
bhamsa(sidereal_long_deg) == inline_division(sidereal_long_deg, 27)
trimsamsa(sidereal_long_deg) == inline_division(sidereal_long_deg, 30)
khavedamsa(sidereal_long_deg) == inline_division(sidereal_long_deg, 40)
akshavedamsa(sidereal_long_deg) == inline_division(sidereal_long_deg, 45)

\* The D60 formula with the final % 12 left out.
shashtyamsa_unwrapped(sidereal_long_deg) ==
    floor_mul_div(sidereal_long_deg, 60, SignSpan)
        + ((sidereal_long_deg \div SignSpan) * 60)

shashtyamsa(sidereal_long_deg) == inline_division(sidereal_long_deg, 60)

\* The 20 charts of calculate_all_divisional_charts, by division number
Divisions == {1, 2, 3, 4, 5, 6, 7, 8, 9, 10, 11, 12, 16, 20, 24, 27, 30, 40, 45, 60}

\* RashiPosition.rashi as the D-d chart builder stores it for a planet at `l`
chart_rashi(d, l) ==
    CASE d = 1  -> compute_rasi(l)
      [] d = 2  -> compute_hora(l)
      [] d = 3  -> compute_drekkana(l)
      [] d = 4  -> compute_chaturtamsa(l)
      [] d = 5  -> compute_panchamsa(l)
      [] d = 6  -> compute_shashtamsa(l)
      [] d = 7  -> compute_saptamsa(l)
      [] d = 8  -> compute_ashtamsa(l)
      [] d = 9  -> compute_navamsa(l)
      [] d = 10 -> compute_dasamsa(l)
      [] d = 11 -> get_rasi_name(rudramsa(l))
      [] d = 12 -> compute_dwadasamsa(l)
      [] d = 16 -> get_rasi_name(shodasamsa(l))
      [] d = 20 -> get_rasi_name(vimsamsa(l))
      [] d = 24 -> get_rasi_name(chaturvimsamsa(l))
      [] d = 27 -> get_rasi_name(bhamsa(l))
      [] d = 30 -> get_rasi_name(trimsamsa(l))
      [] d = 40 -> get_rasi_name(khavedamsa(l))
      [] d = 45 -> get_rasi_name(akshavedamsa(l))
      [] d = 60 -> get_rasi_name(shashtyamsa(l))

(***************************************************************************)
(* Specification of the chart mappings                                     *)
(***************************************************************************)
InitCharts ==
    /\ asc = [deg |-> 0, frac |-> 0]
    /\ lon \in LonInputs
    /\ moon_longitude = 0
    /\ birth_jd = 0
    /\ planets = <<>>
    /\ args = NoArgs
    /\ result = NoResult

\* One planet's placement by the D-d chart builder
CalculateChart(d) ==
    /\ result' = [fn |-> "divisional_chart",
                  val |-> [division |-> d, rashi |-> chart_rashi(d, lon)]]
    /\ UNCHANGED <<asc, lon, moon_longitude, birth_jd, planets, args>>

NextCharts == \E d \in Divisions : CalculateChart(d)

SpecCharts == InitCharts /\ [][NextCharts]_vars

IsChartResult == result.fn = "divisional_chart"

\* The divisions the general pattern is stated for
GenericDivisions == {4, 5, 6, 7, 8, 9, 10, 11, 12, 16, 20, 24, 27, 30, 40, 45, 60}

\* (floor(posInSign / (30/N)) + rasiIndex * N) mod 12
general_pattern(n, l) ==
    LET rasiIndex == l \div SignSpan
        posInSign == l - SignSpan * rasiIndex
    IN  (floor_mul_div(posInSign, n, SignSpan) + rasiIndex * n) % 12

\* C9: for every division N of GenericDivisions and every longitude in [0,360),
\* the sign placed in chart D-N is the one at index
\* (floor(posInSign / (30/N)) + rasiIndex * N) mod 12.
C9_GeneralPattern ==
    (IsChartResult /\ result.val.division \in GenericDivisions) =>
        result.val.rashi = rasi_names[general_pattern(result.val.division, lon) + 1]

\* The same statement for the compute_* functions alone (D4..D10 and D12), which
\* do follow the pattern.
C9_ComputeFunctionsFollowPattern ==
    (IsChartResult /\ result.val.division \in {4, 5, 6, 7, 8, 9, 10, 12}) =>
        result.val.rashi = rasi_names[general_pattern(result.val.division, lon) + 1]

\* C10: every divisional-chart mapping is total over [0,360): it never reaches
\* the unreachable!() arm of get_rasi_name.
C10_MappingsTotal ==
    IsChartResult =>
        \E i \in 1..12 : result.val.rashi = rasi_names[i]

\* The D60 builder has placed a planet of the last sign, where the index before
\* the final % 12 is far outside 0..11.
C10_Witness ==
    /\ IsChartResult
    /\ result.val.division = 60
    /\ lon >= 11 * SignSpan + 29 * Micro
    /\ shashtyamsa_unwrapped(lon) > 11
    /\ result.val.rashi = "Mina"

(***************************************************************************)
(* Vimshottari dasha                                                       *)
(***************************************************************************)
J2000 == 2451545
TOTAL_CYCLE == 120
\* let nak_deg = 13.333333, on the longitude grid
nak_deg == 13333333

\* Years are counted in ticks of year / TOTAL_CYCLE^3.
YearTicks == TOTAL_CYCLE * TOTAL_CYCLE * TOTAL_CYCLE

\* Moon longitudes: around every multiple of nak_deg (0..27 of them fit below
\* 360), MaxMoonOffset grid points after it and one before, and MoonSteps evenly
\* spaced positions inside the nakshatra.
MaxMoonOffset == 9
MoonSteps == 4
MoonInputs ==
    {x \in {k * nak_deg + o : k \in 0..27,
                o \in ((0 - 1)..MaxMoonOffset)
                        \cup {j * (nak_deg \div MoonSteps) : j \in 1..MoonSteps}} :
        x >= 0 /\ x < FullCircle}

\* Birth instants: J2000 and the MaxBirthDays days after it.
MaxBirthDays == 2
BirthInputs == {J2000 + d : d \in 0..MaxBirthDays}

\* A table with Ketu's entry taken from Mars' row: the weights no longer total 120.
DASHA_YEARS_short ==
    <<[years |-> 6, lord |-> "Sun"], [years |-> 10, lord |-> "Moon"],
      [years |-> 7, lord |-> "Mars"], [years |-> 18, lord |-> "Rahu"],
      [years |-> 16, lord |-> "Jupiter"], [years |-> 19, lord |-> "Saturn"],
      [years |-> 17, lord |-> "Mercury"], [years |-> 7, lord |-> "Ketu"],
      [years |-> 7, lord |-> "Venus"]>>

\* const DASHA_YEARS: [(f64, &str); 9]; element i of the source is element i + 1
DASHA_YEARS ==
    <<[years |-> 6, lord |-> "Sun"], [years |-> 10, lord |-> "Moon"],
      [years |-> 7, lord |-> "Mars"], [years |-> 18, lord |-> "Rahu"],
      [years |-> 16, lord |-> "Jupiter"], [years |-> 19, lord |-> "Saturn"],
      [years |-> 17, lord |-> "Mercury"], [years |-> 20, lord |-> "Ketu"],
      [years |-> 7, lord |-> "Venus"]>>

nakshatra_lords ==
    <<"Ketu", "Venus", "Sun", "Moon", "Mars", "Rahu", "Jupiter", "Saturn", "Mercury",
      "Ketu", "Venus", "Sun", "Moon", "Mars", "Rahu", "Jupiter", "Saturn", "Mercury",
      "Ketu", "Venus", "Sun", "Moon", "Mars", "Rahu", "Jupiter", "Saturn", "Mercury">>

\* DASHA_YEARS.iter().position(|&(_, lord)| lord == start_lord): the first index
\* (from 0) holding the lord, or -1 for None
dasha_position(start_lord) ==
    LET hits == {i \in 0..8 : DASHA_YEARS[i + 1].lord = start_lord}
    IN  IF hits = {} THEN 0 - 1
        ELSE CHOOSE i \in hits : \A j \in hits : i <= j

(* A Julian Day of the dasha chain is held as                                *)
(*     base - back / nak_deg years + fwd / YearTicks years                   *)
(* with one year = 365.25 days: `base` is birth_jd in days, `back` counts    *)
(* units of year / nak_deg (elapsed_years = years * prog has denominator     *)
(* nak_deg) and `fwd` counts year ticks.  "x years * 365.25" is then x ticks *)
(* of fwd.                                                                   *)
jd_of(days) == [base |-> days, back |-> 0, fwd |-> 0]

\* jd - elapsed_years * 365.25, elapsed_years given in units of year / nak_deg
jd_minus_elapsed(jd, elapsed) == [jd EXCEPT !.back = @ + elapsed]

\* jd + years * 365.25, years given in ticks
jd_plus_years(jd, years) == [jd EXCEPT !.fwd = @ + years]

\* The divisor of the 108-year Ashtottari cycle in place of TOTAL_CYCLE.
sub_period_years_ashtottari(lord_idx, parent_years) ==
    (DASHA_YEARS[lord_idx + 1].years * parent_years) \div 108

\* DASHA_YEARS[lord_idx].0 * parent_years / TOTAL_CYCLE, in ticks
sub_period_years(lord_idx, parent_years) ==
    (DASHA_YEARS[lord_idx + 1].years * parent_years) \div TOTAL_CYCLE

\* The numerator of prog = (moon_longitude % nak_deg) / nak_deg
nakshatra_progress(longitude) == longitude % nak_deg

calculate_vimsottari_dasha(longitude, jd) ==
    LET nak_idx == (longitude \div nak_deg) % 27
        prog_num == nakshatra_progress(longitude)
        start_lord == nakshatra_lords[nak_idx + 1]
        lord_idx == dasha_position(start_lord)
    IN  IF lord_idx < 0
        THEN [ok |-> FALSE, err |-> "CalculationError"]
        ELSE
        LET maha_years == DASHA_YEARS[lord_idx + 1].years * YearTicks
            elapsed_years == DASHA_YEARS[lord_idx + 1].years * prog_num
            start_jd == jd_minus_elapsed(jd_of(jd), elapsed_years)
            end_jd == jd_plus_years(start_jd, maha_years)
            lord_idx1 == (lord_idx + 1) % 9
            antar_years == sub_period_years(lord_idx1, maha_years)
            antar_end == jd_plus_years(start_jd, antar_years)
            lord_idx2 == (lord_idx1 + 1) % 9
            prat_years == sub_period_years(lord_idx2, antar_years)
            prat_end == jd_plus_years(start_jd, prat_years)
            lord_idx3 == (lord_idx2 + 1) % 9
            sook_years == sub_period_years(lord_idx3, prat_years)
            sook_end == jd_plus_years(start_jd, sook_years)
        IN  [ok |-> TRUE,
             maha_dasha |-> [planet |-> DASHA_YEARS[lord_idx + 1].lord,
                             start |-> start_jd, end |-> end_jd, years |-> maha_years],
             antara_dasha |-> [planet |-> DASHA_YEARS[lord_idx1 + 1].lord,
                               start |-> start_jd, end |-> antar_end,
                               years |-> antar_years],
             pratyantara_dasha |-> [planet |-> DASHA_YEARS[lord_idx2 + 1].lord,
                                    start |-> start_jd, end |-> prat_end,
                                    years |-> prat_years],
             sookshma_dasha |-> [planet |-> DASHA_YEARS[lord_idx3 + 1].lord,
                                 start |-> start_jd, end |-> sook_end,
                                 years |-> sook_years]]

(***************************************************************************)
(* Specification of the dasha computation                                  *)
(***************************************************************************)
InitDasha ==
    /\ asc = [deg |-> 0, frac |-> 0]
    /\ lon = 0
    /\ moon_longitude \in MoonInputs
    /\ birth_jd \in BirthInputs
    /\ planets = <<>>
    /\ args = NoArgs
    /\ result = NoResult

CalculateVimsottariDasha ==
    /\ result' = [fn |-> "calculate_vimsottari_dasha",
                  val |-> calculate_vimsottari_dasha(moon_longitude, birth_jd)]
    /\ UNCHANGED <<asc, lon, moon_longitude, birth_jd, planets, args>>

NextDasha == CalculateVimsottariDasha

SpecDasha == InitDasha /\ [][NextDasha]_vars

IsDashaResult == result.fn = "calculate_vimsottari_dasha" /\ result.val.ok

\* a / b < c / d for a, c >= 0 and b, d > 0, by comparing continued fractions:
\* no product is formed, so nothing leaves 32 bits
RECURSIVE RatLess(_, _, _, _)
RatLess(a, b, c, d) ==
    LET qa == a \div b
        qc == c \div d
        ra == a % b
        rc == c % d
    IN  IF qa # qc THEN qa < qc
        ELSE IF rc = 0 THEN FALSE
        ELSE IF ra = 0 THEN TRUE
        ELSE RatLess(d, rc, b, ra)

\* x / b < y / d for integers x, y of either sign
SignedRatLess(x, b, y, d) ==
    IF x < 0 /\ y >= 0 THEN TRUE
    ELSE IF x >= 0 /\ y < 0 THEN FALSE
    ELSE IF x >= 0 THEN RatLess(x, b, y, d)
    ELSE RatLess(0 - y, d, 0 - x, b)

\* p < q for two Julian Days of one chain:
\* (p.fwd - q.fwd) / YearTicks < (p.back - q.back) / nak_deg
JdLess(p, q) ==
    /\ p.base = q.base
    /\ SignedRatLess(p.fwd - q.fwd, YearTicks, p.back - q.back, nak_deg)

JdLeq(p, q) == p = q \/ JdLess(p, q)

\* q - p is `years` ticks, i.e. years * 365.25 days
JdSpanIs(p, q, years) ==
    /\ p.base = q.base
    /\ p.back = q.back
    /\ q.fwd - p.fwd = years

RECURSIVE SumOver(_, _)
SumOver(f, S) ==
    IF S = {} THEN 0
    ELSE LET x == CHOOSE y \in S : TRUE
         IN  f[x] + SumOver(f, S \ {x})

\* The cycle years the source's table gives a lord
dasha_years_of(lord) == DASHA_YEARS[dasha_position(lord) + 1].years

\* C4: antara.start = maha.start, and the durations of the 9 antara periods under
\* the maha-dasha, one per lord, each lordYears * maha.years / 120, sum to the
\* maha-dasha's own duration.
C4_AntaraAnchoredAndSumsToMaha ==
    IsDashaResult =>
        /\ result.val.antara_dasha.start = result.val.maha_dasha.start
        /\ SumOver([i \in 0..8 |-> sub_period_years(i, result.val.maha_dasha.years)],
                   0..8)
             = result.val.maha_dasha.years

\* A dasha chain was computed for a Moon part-way through a nakshatra, so that the
\* maha-dasha starts before birth.
C4_Witness ==
    /\ IsDashaResult
    /\ moon_longitude % nak_deg > 0
    /\ result.val.maha_dasha.start.back > 0
    /\ result.val.antara_dasha.years > 0

Nested(child, parent) ==
    /\ JdLeq(parent.start, child.start)
    /\ JdLeq(child.end, parent.end)
    /\ child.years * TOTAL_CYCLE = dasha_years_of(child.planet) * parent.years
    /\ JdSpanIs(child.start, child.end, child.years)

vimshottari_weight(lord) ==
    CASE lord = "Ketu" -> 7 [] lord = "Venus" -> 20 [] lord = "Sun" -> 6
      [] lord = "Moon" -> 10 [] lord = "Mars" -> 7 [] lord = "Rahu" -> 18
      [] lord = "Jupiter" -> 16 [] lord = "Saturn" -> 19 [] lord = "Mercury" -> 17

\* C6: the cycle-weight table assigns Ketu 7, Venus 20, Sun 6, Moon 10, Mars 7,
\* Rahu 18, Jupiter 16, Saturn 19, Mercury 17 years, totalling 120, and a
\* maha-dasha ruled by body B has years equal to B's weight.
C6_CycleWeights ==
    IsDashaResult =>
        /\ \A i \in 1..9 : DASHA_YEARS[i].years = vimshottari_weight(DASHA_YEARS[i].lord)
        /\ SumOver([i \in 1..9 |-> DASHA_YEARS[i].years], 1..9) = TOTAL_CYCLE
        /\ result.val.maha_dasha.years
             = vimshottari_weight(result.val.maha_dasha.planet) * YearTicks

\* The part of C6 the table does satisfy: the nine weights total 120.
C6_WeightsTotalCycle ==
    SumOver([i \in 1..9 |-> DASHA_YEARS[i].years], 1..9) = TOTAL_CYCLE

lord_sequence ==
    <<"Ketu", "Venus", "Sun", "Moon", "Mars", "Rahu", "Jupiter", "Saturn", "Mercury">>

\* floor(longitude / 13deg20'): 13deg20' is 40/3 degrees
true_nakshatra(longitude) == (longitude * 3) \div (40 * Micro)

\* C7: for every Moon longitude in [0,360) the maha-dasha lord is element
\* (n mod 9) of Ketu, Venus, Sun, Moon, Mars, Rahu, Jupiter, Saturn, Mercury,
\* where n = floor(longitude / 13deg20') is in 0..26.
C7_LordByNakshatra ==
    IsDashaResult =>
        /\ true_nakshatra(moon_longitude) \in 0..26
        /\ result.val.maha_dasha.planet
             = lord_sequence[(true_nakshatra(moon_longitude) % 9) + 1]

\* floor(8 * a / b) for 0 <= a <= b
Eighths(a, b) == (8 * a) \div b

\* C8: the maha-dasha contains the birth instant (maha.start <= birth_jd <
\* maha.end), and the elapsed share (birth_jd - maha.start) / (maha.end -
\* maha.start) equals the fraction of the starting nakshatra the Moon has
\* traversed.  The equality is asked only to within an eighth: both sides must
\* fall in the same or in neighbouring eighths.
C8_BirthInsideMaha ==
    IsDashaResult =>
        LET maha == result.val.maha_dasha
            birth == jd_of(birth_jd)
            \* birth - start, in units of year / nak_deg
            elapsed == maha.start.back
            \* end - start, in whole years
            span == (maha.end.fwd - maha.start.fwd) \div YearTicks
            traversed == moon_longitude * 3 - true_nakshatra(moon_longitude) * 40 * Micro
            diff == Eighths(elapsed, span * nak_deg) - Eighths(traversed, 40 * Micro)
        IN  /\ JdLeq(maha.start, birth)
            /\ JdLess(birth, maha.end)
            /\ diff \in {0 - 1, 0, 1}

\* The containment half of C8, which the code satisfies for every input.
C8_ContainmentOnly ==
    IsDashaResult =>
        /\ JdLeq(result.val.maha_dasha.start, jd_of(birth_jd))
        /\ JdLess(jd_of(birth_jd), result.val.maha_dasha.end)

(***************************************************************************)
(* Ashtakavarga                                                            *)
(***************************************************************************)
\* The nine bodies, in the order compute_all_planets pushes them
Bodies == <<"Sun", "Moon", "Mars", "Mercury", "Jupiter", "Venus", "Saturn", "Rahu", "Ketu">>

\* Planet lists: up to MaxPlanets planets with distinct names, in the order of
\* Bodies, each in any of the 12 signs at PlanetDegree whole degrees into it.
MaxPlanets == 2
PlanetDegree == 17
Placements(from) ==
    {[name |-> Bodies[b], sidereal_long_deg |-> s * SignSpan + (PlanetDegree % 30) * Micro] :
        b \in from..9, s \in 0..11}
BodyIndex(name) == CHOOSE b \in 1..9 : Bodies[b] = name
RECURSIVE PlanetLists(_)
PlanetLists(k) ==
    IF k = 0 THEN {<<>>}
    ELSE LET shorter == PlanetLists(k - 1)
         IN  shorter \cup
             UNION {{Append(l, p) :
                        p \in Placements(IF l = <<>> THEN 1
                                         ELSE BodyIndex(l[Len(l)].name) + 1)} :
                    l \in {x \in shorter : Len(x) = k - 1}}
PlanetInputs == PlanetLists(MaxPlanets)

\* The beneficial_houses table of calculate_bindu; {0} stands for the
\* Err(InvalidPlanet) arm (0 is no relative house)
beneficial_houses(planet) ==
    CASE planet = "Sun" -> {1, 2, 4, 7, 8, 9, 10, 11}
      [] planet = "Moon" -> {3, 6, 7, 8, 10, 11}
      [] planet = "Mars" -> {1, 2, 4, 7, 8, 9, 10, 11}
      [] planet = "Mercury" -> {1, 3, 5, 6, 7, 8, 9, 10, 11}
      [] planet = "Jupiter" -> {1, 2, 3, 4, 7, 8, 9, 10, 11}
      [] planet = "Venus" -> {1, 2, 3, 4, 5, 8, 9, 10, 11}
      [] planet = "Saturn" -> {3, 5, 6, 8, 9, 10, 11}
      [] OTHER -> {0}

\* A bindu rule that counts the relative house without wrapping past house 12
calculate_bindu_unwrapped(house, planet_house, planet) ==
    LET relative_house == (house - planet_house) + 1
    IN  IF beneficial_houses(planet) = {0} THEN 0 - 1
        ELSE IF relative_house \in beneficial_houses(planet) THEN 1 ELSE 0

\* calculate_bindu: 1 or 0, or -1 for Err(InvalidPlanet)
calculate_bindu(house, planet_house, planet) ==
    LET relative_house == ((house + 12 - planet_house) % 12) + 1
    IN  IF beneficial_houses(planet) = {0} THEN 0 - 1
        ELSE IF relative_house \in beneficial_houses(planet) THEN 1 ELSE 0

\* The += of one contributor's cell over the planet loop: every planet whose
\* name is `name` adds its bindu for `house`.
RECURSIVE bindu_row_cell(_, _, _)
bindu_row_cell(ps, name, house) ==
    IF ps = <<>> THEN 0
    ELSE LET planet == Head(ps)
             planet_house == (planet.sidereal_long_deg \div SignSpan) % 12
         IN  (IF planet.name = name
              THEN calculate_bindu(house, planet_house, name) ELSE 0)
             + bindu_row_cell(Tail(ps), name, house)

\* The combined row with Saturn's contribution left out.
sarva_cell_without_saturn(chart, house) ==
    chart.sun[house] + chart.moon[house] + chart.mars[house] + chart.mercury[house]
        + chart.jupiter[house] + chart.venus[house]

\* chart.sarva[house] = chart.sun[house] + ... + chart.saturn[house]
sarva_cell(chart, house) ==
    chart.sun[house] + chart.moon[house] + chart.mars[house] + chart.mercury[house]
        + chart.jupiter[house] + chart.venus[house] + chart.saturn[house]

\* The arrays are indexed by house 0..11 as in the source.  calculate_bindu is
\* only ever called with one of the seven literal names, so its Err arm and the
\* `?` after it cannot be taken; planets of any other name match `_ => {}`.
calculate_complete_ashtakavarga(ps) ==
    LET rows == [sun     |-> [house \in 0..11 |-> bindu_row_cell(ps, "Sun", house)],
                 moon    |-> [house \in 0..11 |-> bindu_row_cell(ps, "Moon", house)],
                 mars    |-> [house \in 0..11 |-> bindu_row_cell(ps, "Mars", house)],
                 mercury |-> [house \in 0..11 |-> bindu_row_cell(ps, "Mercury", house)],
                 jupiter |-> [house \in 0..11 |-> bindu_row_cell(ps, "Jupiter", house)],
                 venus   |-> [house \in 0..11 |-> bindu_row_cell(ps, "Venus", house)],
                 saturn  |-> [house \in 0..11 |-> bindu_row_cell(ps, "Saturn", house)]]
    IN  [sun |-> rows.sun, moon |-> rows.moon, mars |-> rows.mars,
         mercury |-> rows.mercury, jupiter |-> rows.jupiter, venus |-> rows.venus,
         saturn |-> rows.saturn,
         sarva |-> [house \in 0..11 |-> sarva_cell(rows, house)]]

(***************************************************************************)
(* Specification of the ashtakavarga computation                           *)
(***************************************************************************)
InitAshtakavarga ==
    /\ asc = [deg |-> 0, frac |-> 0]
    /\ lon = 0
    /\ moon_longitude = 0
    /\ birth_jd = 0
    /\ planets \in PlanetInputs
    /\ args = NoArgs
    /\ result = NoResult

CalculateCompleteAshtakavarga ==
    /\ result' = [fn |-> "calculate_complete_ashtakavarga",
                  val |-> calculate_complete_ashtakavarga(planets)]
    /\ UNCHANGED <<asc, lon, moon_longitude, birth_jd, planets, args>>

NextAshtakavarga == CalculateCompleteAshtakavarga

SpecAshtakavarga == InitAshtakavarga /\ [][NextAshtakavarga]_vars

IsAshtakavargaResult == result.fn = "calculate_complete_ashtakavarga"

DistinctNames(ps) ==
    \A i, j \in 1..Len(ps) : ps[i].name = ps[j].name => i = j

\* C3: for every planet list with distinct body names and every house h in 0..11,
\* sarva[h] = sun[h]+moon[h]+mars[h]+mercury[h]+jupiter[h]+venus[h]+saturn[h],
\* and every cell of the seven individual arrays is 0 or 1.
C3_SarvaIsSumOfBinaryRows ==
    (IsAshtakavargaResult /\ DistinctNames(planets)) =>
        LET c == result.val
        IN  \A h \in 0..11 :
                /\ c.sarva[h] = c.sun[h] + c.moon[h] + c.mars[h] + c.mercury[h]
                                  + c.jupiter[h] + c.venus[h] + c.saturn[h]
                /\ \A row \in {c.sun, c.moon, c.mars, c.mercury, c.jupiter,
                               c.venus, c.saturn} : row[h] \in {0, 1}

\* A chart was computed for a list that holds Saturn and another contributor, and
\* some house collects a bindu from both.
C3_Witness ==
    /\ IsAshtakavargaResult
    /\ Len(planets) >= 2
    /\ \E i \in 1..Len(planets) : planets[i].name = "Saturn"
    /\ \E h \in 0..11 : result.val.saturn[h] = 1 /\ result.val.sarva[h] = 2

(***************************************************************************)
(* RashiPosition: the pada of a planet                                     *)
(***************************************************************************)
\* The literal 3.333333 of the pada expression, on the longitude grid
pada_deg == 3333333

\* Longitudes around every quarter of every nakshatra: the multiples of a true
\* quarter (3deg20' = 10/3 degrees) rounded down to the grid, PadaSpread grid
\* points to either side of each.
PadaSpread == 3
PadaInputs ==
    {x \in {(q * 10 * Micro) \div 3 + e : q \in 0..108, e \in (0 - PadaSpread)..PadaSpread} :
        x >= 0 /\ x < FullCircle}

\* ((longitude % 13.333333) / 3.333333).floor() as u8 + 1, without the final
\* narrowing (the value is far below 256)
pada(longitude) == ((longitude % nak_deg) \div pada_deg) + 1

\* The RashiPosition the D-d chart builder stores for a planet at `longitude`
\* (the nakshatra name is left out)
calculate_rashi_position(d, longitude) ==
    [rashi |-> chart_rashi(d, longitude),
     degree |-> longitude % SignSpan,
     pada |-> pada(longitude)]

InitRashiPosition ==
    /\ asc = [deg |-> 0, frac |-> 0]
    /\ lon \in PadaInputs
    /\ moon_longitude = 0
    /\ birth_jd = 0
    /\ planets = <<>>
    /\ args = NoArgs
    /\ result = NoResult

CalculateRashiPosition(d) ==
    /\ result' = [fn |-> "calculate_rashi_position",
                  val |-> [division |-> d, position |-> calculate_rashi_position(d, lon)]]
    /\ UNCHANGED <<asc, lon, moon_longitude, birth_jd, planets, args>>

NextRashiPosition == \E d \in Divisions : CalculateRashiPosition(d)

SpecRashiPosition == InitRashiPosition /\ [][NextRashiPosition]_vars

IsRashiPositionResult == result.fn = "calculate_rashi_position"

\* floor((lon mod 13deg20') / 3deg20') + 1, with 13deg20' = 40/3 degrees and
\* 3deg20' = 10/3 degrees (everything multiplied by 3)
true_pada(longitude) == (((3 * longitude) % (40 * Micro)) \div (10 * Micro)) + 1

\* C11: for every planet longitude in [0,360), the pada of every RashiPosition
\* of every divisional chart is in 1..4 and equals
\* floor((lon mod 13deg20') / 3deg20') + 1.
C11_PadaInRangeAndByQuarter ==
    IsRashiPositionResult =>
        /\ result.val.position.pada \in 1..4
        /\ result.val.position.pada = true_pada(lon)

\* The range alone
C11_PadaInRange ==
    IsRashiPositionResult => result.val.position.pada \in 1..4

(***************************************************************************)
(* BirthData::new                                                          *)
(***************************************************************************)
\* An f64 argument is a number on the 1e-6 degree grid, an infinity or NaN.
F64Num(v) == [kind |-> "num", v |-> v]
F64NaN == [kind |-> "nan", v |-> 0]
F64PosInf == [kind |-> "pinf", v |-> 0]
F64NegInf == [kind |-> "ninf", v |-> 0]

f64_rank(a) == CASE a.kind = "ninf" -> 0 - 1 [] a.kind = "pinf" -> 1 [] OTHER -> 0

\* a < b and a > b on f64: false whenever an operand is NaN
f64_lt(a, b) ==
    /\ a.kind # "nan"
    /\ b.kind # "nan"
    /\ \/ f64_rank(a) < f64_rank(b)
       \/ a.kind = "num" /\ b.kind = "num" /\ a.v < b.v
f64_gt(a, b) == f64_lt(b, a)

\* Angles handed to the constructor: AngleSpread grid points to either side of
\* each limit, the middle of the range, well outside it, and the non-numbers.
AngleSpread == 2
AngleInputs(limit) ==
    {F64Num(s * (limit * Micro + e)) : s \in {0 - 1, 1}, e \in (0 - AngleSpread)..AngleSpread}
        \cup {F64Num(0), F64Num(2 * limit * Micro), F64Num(0 - 2 * limit * Micro),
              F64NaN, F64PosInf, F64NegInf}
MaxDatetime == 1
DatetimeInputs == 0..MaxDatetime
TimezoneInputs == {"UTC", "Asia/Kolkata"}

birth_data_new(datetime, longitude, latitude, timezone) ==
    IF f64_lt(longitude, F64Num(0 - 180 * Micro)) \/ f64_gt(longitude, F64Num(180 * Micro))
    THEN [ok |-> FALSE, err |-> "InvalidLongitude", value |-> longitude]
    ELSE IF f64_lt(latitude, F64Num(0 - 90 * Micro)) \/ f64_gt(latitude, F64Num(90 * Micro))
    THEN [ok |-> FALSE, err |-> "InvalidLatitude", value |-> latitude]
    ELSE [ok |-> TRUE, err |-> "none",
          value |-> [datetime |-> datetime, longitude |-> longitude,
                     latitude |-> latitude, timezone |-> timezone]]

InitBirthData ==
    /\ asc = [deg |-> 0, frac |-> 0]
    /\ lon = 0
    /\ moon_longitude = 0
    /\ birth_jd = 0
    /\ planets = <<>>
    /\ args \in [datetime : DatetimeInputs, longitude : AngleInputs(180),
                 latitude : AngleInputs(90), timezone : TimezoneInputs]
    /\ result = NoResult

BirthDataNew ==
    /\ result' = [fn |-> "BirthData::new",
                  val |-> birth_data_new(args.datetime, args.longitude,
                                         args.latitude, args.timezone)]
    /\ UNCHANGED <<asc, lon, moon_longitude, birth_jd, planets, args>>

NextBirthData == BirthDataNew

SpecBirthData == InitBirthData /\ [][NextBirthData]_vars

IsBirthDataResult == result.fn = "BirthData::new"

\* x is a number of the closed interval [-limit, limit] degrees
WithinRange(x, limit) ==
    x.kind = "num" /\ x.v >= 0 - limit * Micro /\ x.v <= limit * Micro

\* What the constructor is stated to return
birth_data_contract(a) ==
    IF ~WithinRange(a.longitude, 180)
    THEN [ok |-> FALSE, err |-> "InvalidLongitude", value |-> a.longitude]
    ELSE IF ~WithinRange(a.latitude, 90)
    THEN [ok |-> FALSE, err |-> "InvalidLatitude", value |-> a.latitude]
    ELSE [ok |-> TRUE, err |-> "none", value |-> a]

\* C12: BirthData::new returns Err(InvalidLongitude(lon)) when lon is outside
\* [-180,180]; otherwise Err(InvalidLatitude(lat)) when lat is outside [-90,90];
\* otherwise Ok with the four fields stored exactly as passed, the limits
\* themselves being accepted; the longitude error wins when both are outside.
C12_ConstructorValidates ==
    IsBirthDataResult => result.val = birth_data_contract(args)

\* The same statement for arguments that are numbers or infinities (not NaN)
C12_OrderedArguments ==
    (IsBirthDataResult /\ args.longitude.kind # "nan" /\ args.latitude.kind # "nan") =>
        result.val = birth_data_contract(args)

\* Whatever is constructed has both angles within range
C12_ConstructedWithinRange ==
    (IsBirthDataResult /\ result.val.ok) =>
        /\ WithinRange(result.val.value.longitude, 180)
        /\ WithinRange(result.val.value.latitude, 90)

(***************************************************************************)
(* Planet dignity, relationships and shadbala                              *)
(* Strengths are counted in thousandths (1.0 = Milli).                     *)
(***************************************************************************)
Milli == 10 * 10 * 10

Ok(v) == [ok |-> TRUE, err |-> "none", value |-> v]
Err(kind, v) == [ok |-> FALSE, err |-> kind, value |-> v]

\* `a as i32 % 12` : the remainder takes the sign of a
rem_12(a) == IF a >= 0 THEN a % 12 ELSE 0 - ((0 - a) % 12)

\* The ascendant [deg, frac] on the longitude grid
asc_on_grid(a) == a.deg * Micro + a.frac \div 1000

\* (planet.sidereal_long_deg / 30.0).floor() as i32 % 12
sign_of(planet) == rem_12(planet.sidereal_long_deg \div SignSpan)

\* ((planet.sidereal_long_deg - asc) / 30.0).floor() as i32 % 12
house_of(planet, a) == rem_12((planet.sidereal_long_deg - asc_on_grid(a)) \div SignSpan)

\* The (mool, own, exalt, debil) table of calculate_dignity; <<>> is the `_` arm
dignity_signs(name) ==
    CASE name = "Sun" -> <<4, 4, 0, 6>>
      [] name = "Moon" -> <<3, 3, 1, 7>>
      [] name = "Mars" -> <<0, 7, 9, 3>>
      [] name = "Mercury" -> <<5, 2, 5, 11>>
      [] name = "Jupiter" -> <<8, 11, 3, 9>>
      [] name = "Venus" -> <<6, 1, 11, 5>>
      [] name = "Saturn" -> <<9, 10, 6, 0>>
      [] OTHER -> <<>>

is_friendly_sign(planet, sign) ==
    CASE planet = "Sun" -> sign \in {0, 4, 8}
      [] planet = "Moon" -> sign \in {1, 3, 5}
      [] planet = "Mars" -> sign \in {0, 4, 8}
      [] planet = "Mercury" -> sign \in {2, 5, 6}
      [] planet = "Jupiter" -> sign \in {0, 4, 8}
      [] planet = "Venus" -> sign \in {1, 6, 10}
      [] planet = "Saturn" -> sign \in {9, 10, 11}
      [] OTHER -> FALSE

is_enemy_sign(planet, sign) ==
    CASE planet = "Sun" -> sign \in {6, 7, 10}
      [] planet = "Moon" -> sign \in {7, 9, 10}
      [] planet = "Mars" -> sign \in {1, 6, 10}
      [] planet = "Mercury" -> sign \in {8, 9, 11}
      [] planet = "Jupiter" -> sign \in {2, 5, 6}
      [] planet = "Venus" -> sign \in {0, 7, 8}
      [] planet = "Saturn" -> sign \in {0, 4, 8}
      [] OTHER -> FALSE

calculate_dignity(planet) ==
    LET sign == sign_of(planet)
        t == dignity_signs(planet.name)
    IN  IF t = <<>> THEN Err("InvalidPlanet", planet.name)
        ELSE Ok([moolatrikona |-> sign = t[1],
                 own_sign |-> sign = t[2],
                 exalted |-> sign = t[3],
                 debilitated |-> sign = t[4],
                 friendly_sign |-> is_friendly_sign(planet.name, sign),
                 enemy_sign |-> is_enemy_sign(planet.name, sign)])

\* The (friends, enemies, neutrals) table of calculate_relationships
natural_relationships(name) ==
    CASE name = "Sun" -> <<{"Moon", "Mars", "Jupiter"}, {"Venus", "Saturn"}, {"Mercury"}>>
      [] name = "Moon" -> <<{"Sun", "Mercury"}, {"Rahu", "Ketu"},
                            {"Mars", "Jupiter", "Venus", "Saturn"}>>
      [] name = "Mars" -> <<{"Sun", "Moon", "Jupiter"}, {"Mercury"}, {"Venus", "Saturn"}>>
      [] name = "Mercury" -> <<{"Sun", "Venus"}, {"Moon"}, {"Mars", "Jupiter", "Saturn"}>>
      [] name = "Jupiter" -> <<{"Sun", "Moon", "Mars"}, {"Mercury", "Venus"}, {"Saturn"}>>
      [] name = "Venus" -> <<{"Mercury", "Saturn"}, {"Sun", "Moon"}, {"Mars", "Jupiter"}>>
      [] name = "Saturn" -> <<{"Mercury", "Venus"}, {"Sun", "Moon", "Mars"}, {"Jupiter"}>>
      [] name \in {"Rahu", "Ketu"} ->
             <<{"Venus", "Saturn"}, {"Sun", "Moon"}, {"Mars", "Mercury", "Jupiter"}>>
      [] OTHER -> <<>>

calculate_relationships(planet) ==
    LET t == natural_relationships(planet.name)
    IN  IF t = <<>> THEN Err("InvalidPlanet", planet.name)
        ELSE Ok([natural_friends |-> t[1], natural_enemies |-> t[2],
                 natural_neutrals |-> t[3],
                 temporary_friends |-> {}, temporary_enemies |-> {}])

\* Strength added for a dignity: the six `if dignity...` steps of
\* calculate_shadbala; calculate_planet_strength leaves out the enemy-sign step
dignity_strength(d, with_enemy) ==
    (IF d.exalted THEN Milli ELSE 0) + (IF d.own_sign THEN 750 ELSE 0)
    + (IF d.moolatrikona THEN 500 ELSE 0) + (IF d.friendly_sign THEN 250 ELSE 0)
    - (IF d.debilitated THEN 500 ELSE 0)
    - (IF with_enemy /\ d.enemy_sign THEN 250 ELSE 0)

\* The house index (0-based) each planet's dig bala is tested against; 12 stands
\* for the `_ => {}` arm, which no house index equals
dig_bala_house(name) ==
    CASE name \in {"Sun", "Mars"} -> 9
      [] name \in {"Moon", "Venus"} -> 3
      [] name \in {"Mercury", "Jupiter"} -> 0
      [] name = "Saturn" -> 6
      [] OTHER -> 12

kala_bala_of(name, is_day) ==
    CASE name \in {"Sun", "Jupiter", "Saturn"} -> IF is_day THEN 500 ELSE 0
      [] name \in {"Moon", "Venus", "Mars"} -> IF is_day THEN 0 ELSE 500
      [] OTHER -> 0

drik_bala_of(name, house) ==
    CASE name = "Mars" -> (IF house \in {3, 6, 9} THEN Milli ELSE 0)
                          + (IF house = 7 THEN 500 ELSE 0)
      [] name = "Jupiter" -> (IF house \in {4, 7, 8} THEN Milli ELSE 0)
                             + (IF house = 5 THEN 750 ELSE 0)
      [] name = "Saturn" -> (IF house \in {2, 6, 9} THEN Milli ELSE 0)
                            + (IF house = 3 THEN 500 ELSE 0)
      [] OTHER -> IF house = 6 THEN 500 ELSE 0

naisargika_bala_of(name) ==
    CASE name = "Sun" -> Milli
      [] name = "Moon" -> 857
      [] name = "Mars" -> 714
      [] name = "Mercury" -> 571
      [] name = "Jupiter" -> 429
      [] name = "Venus" -> 286
      [] name = "Saturn" -> 143
      [] OTHER -> 0

\* calculate_shadbala(planet, jd, asc); is_day stands for
\* local_sidereal_time(jd, 0.0) >= 180.0, the only use made of jd
calculate_shadbala(planet, is_day, a) ==
    LET dignity == calculate_dignity(planet)
        house == house_of(planet, a)
        sthan_bala == dignity_strength(dignity.value, TRUE)
        dig_bala == IF house = dig_bala_house(planet.name) THEN Milli ELSE 0
        kala_bala == kala_bala_of(planet.name, is_day)
        drik_bala == drik_bala_of(planet.name, house)
        naisargika_bala == naisargika_bala_of(planet.name)
    IN  IF ~dignity.ok THEN dignity
        ELSE Ok([sthan_bala |-> sthan_bala, dig_bala |-> dig_bala,
                 kala_bala |-> kala_bala, drik_bala |-> drik_bala,
                 naisargika_bala |-> naisargika_bala,
                 total |-> sthan_bala + dig_bala + kala_bala + drik_bala
                           + naisargika_bala])

\* PlanetInfo::new(position, asc, jd)
planet_info_new(position, a, is_day) ==
    LET dignity == calculate_dignity(position)
        strength == calculate_shadbala(position, is_day, a)
        relationships == calculate_relationships(position)
    IN  IF ~dignity.ok THEN dignity
        ELSE IF ~strength.ok THEN strength
        ELSE IF ~relationships.ok THEN relationships
        ELSE Ok([dignity |-> dignity.value, strength |-> strength.value,
                 relationships |-> relationships.value, basic_info |-> position])

(***************************************************************************)
(* Strengths over a planet list                                            *)
(***************************************************************************)
\* planets.iter().find(|p| p.name == name): the index of the first match, 0 if none
find_planet(ps, name) ==
    IF \E i \in 1..Len(ps) : ps[i].name = name
    THEN CHOOSE i \in 1..Len(ps) :
             ps[i].name = name /\ \A j \in 1..(i - 1) : ps[j].name # name
    ELSE 0

\* deg.rem_euclid(360.0) for a difference of two grid longitudes, where the
\* result is exact
normalize_degrees_on_grid(deg) == deg % FullCircle

get_moon_longitude(ps) ==
    LET i == find_planet(ps, "Moon")
    IN  IF i = 0 THEN Err("CalculationError", "Moon position not found")
        ELSE Ok(ps[i].sidereal_long_deg)

is_waxing_moon(moon, ps) ==
    LET i == find_planet(ps, "Sun")
    IN  IF i = 0 THEN Err("CalculationError", "Sun position not found")
        ELSE Ok(normalize_degrees_on_grid(moon.sidereal_long_deg - ps[i].sidereal_long_deg)
                    >= 180 * Micro)

natural_strength(name, waxing) ==
    CASE name = "Sun" -> Milli
      [] name = "Moon" -> IF waxing THEN Milli ELSE 500
      [] name = "Mars" -> 850
      [] name = "Mercury" -> 700
      [] name = "Jupiter" -> 900
      [] name = "Venus" -> 750
      [] name = "Saturn" -> 500
      [] OTHER -> 0

\* Angular 1.0, succedent 0.75, cadent 0.5, by 0-based house index
positional_strength(house) ==
    CASE house \in {0, 3, 6, 9} -> Milli
      [] house \in {1, 4, 7, 10} -> 750
      [] OTHER -> 500

calculate_planet_strength(planet, all_planets, a) ==
    LET waxing == IF planet.name = "Moon" THEN is_waxing_moon(planet, all_planets)
                  ELSE Ok(FALSE)
        dignity == calculate_dignity(planet)
    IN  IF ~waxing.ok THEN waxing
        ELSE IF ~dignity.ok THEN dignity
        ELSE Ok(natural_strength(planet.name, waxing.value)
                + positional_strength(house_of(planet, a))
                + dignity_strength(dignity.value, FALSE))

get_house_lord(house) ==
    CASE house \in {1, 8} -> "Mars"
      [] house \in {2, 7} -> "Venus"
      [] house \in {3, 6} -> "Mercury"
      [] house = 4 -> "Moon"
      [] house = 5 -> "Sun"
      [] house \in {9, 12} -> "Jupiter"
      [] house \in {10, 11} -> "Saturn"
      [] OTHER -> "Unknown"

bhava_digbala(house_num) ==
    CASE house_num \in {1, 10} -> 60 * Milli
      [] house_num \in {4, 7} -> 30 * Milli
      [] house_num \in {2, 5, 8, 11} -> 15 * Milli
      [] OTHER -> 7500

\* The drishti loop: planets whose unwrapped house index equals house_num
RECURSIVE bhava_drishti_bala(_, _, _)
bhava_drishti_bala(ps, a, house_num) ==
    IF ps = <<>> THEN 0
    ELSE LET planet == Head(ps)
             aspect_house == (planet.sidereal_long_deg - asc_on_grid(a)) \div SignSpan
         IN  (IF aspect_house = house_num
              THEN CASE planet.name = "Jupiter" -> 20 * Milli
                     [] planet.name = "Mars" -> 15 * Milli
                     [] planet.name = "Saturn" -> 10 * Milli
                     [] OTHER -> 5 * Milli
              ELSE 0) + bhava_drishti_bala(Tail(ps), a, house_num)

\* One iteration of the house loop of calculate_bhava_bala: Err when the lord's
\* strength fails, else the BhavaBala record
bhava_bala_of_house(ps, a, house_num) ==
    LET i == find_planet(ps, get_house_lord(house_num))
        adhipati == IF i = 0 THEN Ok(0) ELSE calculate_planet_strength(ps[i], ps, a)
        dig_bala == bhava_digbala(house_num)
        drishti_bala == bhava_drishti_bala(ps, a, house_num)
    IN  IF ~adhipati.ok THEN adhipati
        ELSE Ok([house_number |-> house_num,
                 bhava_adhipati_bala |-> adhipati.value,
                 bhava_digbala |-> dig_bala,
                 bhava_drishti_bala |-> drishti_bala,
                 total |-> adhipati.value + dig_bala + drishti_bala])

\* The first error of the loop, in house order, or the twelve records
calculate_bhava_bala(ps, a) ==
    LET per_house == [h \in 1..12 |-> bhava_bala_of_house(ps, a, h)]
    IN  IF \E h \in 1..12 : ~per_house[h].ok
        THEN per_house[CHOOSE h \in 1..12 :
                           ~per_house[h].ok /\ \A g \in 1..(h - 1) : per_house[g].ok]
        ELSE Ok([h \in 1..12 |-> per_house[h].value])

is_own_sign(planet, sign) ==
    CASE planet = "Sun" -> sign = 4
      [] planet = "Moon" -> sign = 3
      [] planet = "Mars" -> sign \in {0, 7}
      [] planet = "Mercury" -> sign \in {2, 5}
      [] planet = "Jupiter" -> sign \in {8, 11}
      [] planet = "Venus" -> sign \in {1, 6}
      [] planet = "Saturn" -> sign \in {9, 10}
      [] OTHER -> FALSE

is_own_hora(planet, hora) ==
    CASE planet \in {"Sun", "Mars"} -> hora \in {"Mesa", "Simha"}
      [] planet \in {"Moon", "Venus"} -> hora \in {"Vrsabha", "Karka"}
      [] OTHER -> FALSE

is_own_drekkana(planet, drekkana) ==
    CASE planet = "Mars" -> drekkana \in {"Mesa", "Vrscika"}
      [] planet = "Sun" -> drekkana = "Simha"
      [] planet = "Jupiter" -> drekkana = "Dhanus"
      [] OTHER -> FALSE

\* sign_name.parse::<f64>().unwrap_or(0.0): no sign name is a number
parse_f64_or_zero(sign_name) ==
    IF \E i \in 1..12 : rasi_names[i] = sign_name THEN 0 ELSE 0 - 1

calculate_divisional_strength(planet) ==
    LET long_deg == planet.sidereal_long_deg
        nav_sign == rem_12(parse_f64_or_zero(compute_navamsa(long_deg)) \div 30)
        dwad_sign == rem_12(parse_f64_or_zero(compute_dwadasamsa(long_deg)) \div 30)
    IN  (IF is_own_sign(planet.name, sign_of(planet)) THEN 5 * Milli ELSE 0)
        + (IF is_own_hora(planet.name, compute_hora(long_deg)) THEN 2 * Milli ELSE 0)
        + (IF is_own_drekkana(planet.name, compute_drekkana(long_deg)) THEN 2 * Milli ELSE 0)
        + (IF is_own_sign(planet.name, nav_sign) THEN 5 * Milli ELSE 0)
        + (IF is_own_sign(planet.name, dwad_sign) THEN 2 * Milli ELSE 0)

\* Exaltation 20, debilitation 0, otherwise 10
uchcha_bala(name, sign) ==
    LET t == dignity_signs(name)
    IN  IF t = <<>> THEN 10 * Milli
        ELSE IF sign = t[3] THEN 20 * Milli
        ELSE IF sign = t[4] THEN 0
        ELSE 10 * Milli

\* One planet's entry of calculate_vimsopaka_bala
vimsopaka_points(planet, a) ==
    LET sign == sign_of(planet)
        house == house_of(planet, a)
        decanate == (planet.sidereal_long_deg % SignSpan) \div (10 * Micro)
        points == uchcha_bala(planet.name, sign)
                  + calculate_divisional_strength(planet)
                  + (IF sign % 2 = 0 THEN 15 * Milli ELSE 7500)
                  + (CASE house \in {0, 3, 6, 9} -> 20 * Milli
                       [] house \in {1, 4, 7, 10} -> 15 * Milli
                       [] OTHER -> 10 * Milli)
                  + (CASE decanate = 0 -> 15 * Milli
                       [] decanate = 1 -> 10 * Milli
                       [] OTHER -> 5 * Milli)
    IN  IF points \div 5 < 20 * Milli THEN points \div 5 ELSE 20 * Milli

\* The HashMap keyed by planet name: a later planet of the same name overwrites
calculate_vimsopaka_bala(ps, a) ==
    Ok([n \in {ps[i].name : i \in 1..Len(ps)} |->
           LET last == CHOOSE i \in 1..Len(ps) :
                           ps[i].name = n /\ \A j \in (i + 1)..Len(ps) : ps[j].name # n
           IN  vimsopaka_points(ps[last], a)])

calculate_strength_metrics(ps, a, is_day) ==
    LET shadbalas == [i \in 1..Len(ps) |-> calculate_shadbala(ps[i], is_day, a)]
        bhava_bala == calculate_bhava_bala(ps, a)
        vimsopaka_bala == calculate_vimsopaka_bala(ps, a)
    IN  IF \E i \in 1..Len(ps) : ~shadbalas[i].ok
        THEN shadbalas[CHOOSE i \in 1..Len(ps) :
                           ~shadbalas[i].ok /\ \A j \in 1..(i - 1) : shadbalas[j].ok]
        ELSE IF ~bhava_bala.ok THEN bhava_bala
        ELSE Ok([shadbala |->
                     [n \in {ps[i].name : i \in 1..Len(ps)} |->
                         LET last == CHOOSE i \in 1..Len(ps) :
                                         ps[i].name = n
                                         /\ \A j \in (i + 1)..Len(ps) : ps[j].name # n
                         IN  shadbalas[last].value],
                 bhava_bala |-> bhava_bala.value,
                 vimsopaka_bala |-> vimsopaka_bala.value])

\* Base strength of a house: angular 1.0, succedent 0.75, cadent 0.5
house_base_strength(house_num) ==
    CASE house_num \in {1, 4, 7, 10} -> Milli
      [] house_num \in {2, 5, 8, 11} -> 750
      [] OTHER -> 500

natural_significators(house_num) ==
    CASE house_num = 1 -> {"Sun", "Mars"}
      [] house_num = 2 -> {"Jupiter", "Venus"}
      [] house_num = 3 -> {"Mars", "Mercury"}
      [] house_num = 4 -> {"Moon", "Venus"}
      [] house_num = 5 -> {"Sun", "Jupiter"}
      [] house_num = 6 -> {"Mars", "Saturn"}
      [] house_num = 7 -> {"Venus", "Saturn"}
      [] house_num = 8 -> {"Saturn", "Mars"}
      [] house_num = 9 -> {"Jupiter", "Sun"}
      [] house_num = 10 -> {"Mercury", "Saturn"}
      [] house_num = 11 -> {"Jupiter", "Venus"}
      [] house_num = 12 -> {"Saturn", "Jupiter"}
      [] OTHER -> {}

\* ((lon - asc) / 30.0).floor() as i32 % 12 + 1
planet_house(planet, a) == house_of(planet, a) + 1

\* Planets of the list counted in house_num
occupants(ps, a, house_num) ==
    {i \in 1..Len(ps) : planet_house(ps[i], a) = house_num}

calculate_house_strengths(ps, a) ==
    Ok([house_num \in 1..12 |->
           LET occ == occupants(ps, a, house_num)
           IN  [house_number |-> house_num,
                strength |-> house_base_strength(house_num) + 500 * Cardinality(occ),
                significator_strength |->
                    Milli * Cardinality({i \in occ :
                                ps[i].name \in natural_significators(house_num)})]])

(***************************************************************************)
(* Strength functions applied to planet lists                              *)
(***************************************************************************)
\* The nine bodies in the order of compute_all_planets, the first at `base` and
\* each next one `step` further along the zodiac
nine_bodies(base, step) ==
    [b \in 1..9 |-> [name |-> Bodies[b],
                     sidereal_long_deg |-> (base + (b - 1) * step) % FullCircle]]

\* The sub-list of `ps` holding the bodies named in `keep`, order preserved
RECURSIVE keep_bodies(_, _)
keep_bodies(ps, keep) ==
    IF ps = <<>> THEN <<>>
    ELSE IF Head(ps).name \in keep THEN <<Head(ps)>> \o keep_bodies(Tail(ps), keep)
    ELSE keep_bodies(Tail(ps), keep)

BodyNames == {Bodies[b] : b \in 1..9}
ClassicalPlanets == {"Sun", "Moon", "Mars", "Mercury", "Jupiter", "Venus", "Saturn"}

\* Lists handed to the strength functions: all nine bodies, all but one, the
\* seven classical planets, a single body, none.
KeepSets ==
    {BodyNames, ClassicalPlanets, {}}
        \cup {BodyNames \ {n} : n \in BodyNames}
        \cup {{n} : n \in BodyNames}
MaxSpacing == 1
SpacingDegrees == 47
AscendantDegree == 20
StrengthPlanetInputs ==
    {keep_bodies(nine_bodies(s * SignSpan + (PlanetDegree % 30) * Micro,
                             k * SpacingDegrees * Micro), keep) :
        s \in 0..11, k \in 0..MaxSpacing, keep \in KeepSets}
\* Ascendants: the start of each quadrant and AscendantDegree degrees into it
StrengthAscInputs ==
    {[deg |-> 90 * q + o, frac |-> 0] : q \in 0..3, o \in {0, AscendantDegree % 30}}

InitStrength ==
    /\ asc \in StrengthAscInputs
    /\ lon = 0
    /\ moon_longitude = 0
    /\ birth_jd = 0
    /\ planets \in StrengthPlanetInputs
    /\ args \in [is_day : BOOLEAN]
    /\ result = NoResult

CalculateDignity(i) ==
    /\ result' = [fn |-> "calculate_dignity",
                  val |-> [planet |-> planets[i], out |-> calculate_dignity(planets[i])]]
    /\ UNCHANGED <<asc, lon, moon_longitude, birth_jd, planets, args>>

CalculateShadbala(i) ==
    /\ result' = [fn |-> "calculate_shadbala",
                  val |-> [planet |-> planets[i],
                           out |-> calculate_shadbala(planets[i], args.is_day, asc)]]
    /\ UNCHANGED <<asc, lon, moon_longitude, birth_jd, planets, args>>

CalculateRelationships(i) ==
    /\ result' = [fn |-> "calculate_relationships",
                  val |-> [planet |-> planets[i],
                           out |-> calculate_relationships(planets[i])]]
    /\ UNCHANGED <<asc, lon, moon_longitude, birth_jd, planets, args>>

PlanetInfoNew(i) ==
    /\ result' = [fn |-> "PlanetInfo::new",
                  val |-> [planet |-> planets[i],
                           out |-> planet_info_new(planets[i], asc, args.is_day)]]
    /\ UNCHANGED <<asc, lon, moon_longitude, birth_jd, planets, args>>

\* is_waxing_moon is called with the Moon of the list
IsWaxingMoon(i) ==
    /\ planets[i].name = "Moon"
    /\ result' = [fn |-> "is_waxing_moon",
                  val |-> [planet |-> planets[i],
                           out |-> is_waxing_moon(planets[i], planets)]]
    /\ UNCHANGED <<asc, lon, moon_longitude, birth_jd, planets, args>>

GetMoonLongitude ==
    /\ result' = [fn |-> "get_moon_longitude",
                  val |-> [out |-> get_moon_longitude(planets)]]
    /\ UNCHANGED <<asc, lon, moon_longitude, birth_jd, planets, args>>

CalculateBhavaBala ==
    /\ result' = [fn |-> "calculate_bhava_bala",
                  val |-> [out |-> calculate_bhava_bala(planets, asc)]]
    /\ UNCHANGED <<asc, lon, moon_longitude, birth_jd, planets, args>>

CalculateStrengthMetrics ==
    /\ result' = [fn |-> "calculate_strength_metrics",
                  val |-> [out |-> calculate_strength_metrics(planets, asc, args.is_day)]]
    /\ UNCHANGED <<asc, lon, moon_longitude, birth_jd, planets, args>>

CalculateHouseStrengths ==
    /\ result' = [fn |-> "calculate_house_strengths",
                  val |-> [out |-> calculate_house_strengths(planets, asc)]]
    /\ UNCHANGED <<asc, lon, moon_longitude, birth_jd, planets, args>>

NextStrength ==
    \/ \E i \in 1..Len(planets) :
           \/ CalculateDignity(i)
           \/ CalculateShadbala(i)
           \/ CalculateRelationships(i)
           \/ PlanetInfoNew(i)
           \/ IsWaxingMoon(i)
    \/ GetMoonLongitude
    \/ CalculateBhavaBala
    \/ CalculateStrengthMetrics
    \/ CalculateHouseStrengths

SpecStrength == InitStrength /\ [][NextStrength]_vars

\* C13: InvalidPlanet is returned only for a body name outside the nine-body
\* enumeration: calculate_dignity, calculate_shadbala, calculate_relationships
\* and PlanetInfo::new return Ok for each of the nine bodies, and
\* calculate_strength_metrics returns Ok over the nine-body list.
C13_NineBodiesAccepted ==
    /\ result.fn \in {"calculate_dignity", "calculate_shadbala",
                      "calculate_relationships", "PlanetInfo::new"}
           => (result.val.planet.name \in BodyNames => result.val.out.ok)
    /\ (result.fn = "calculate_strength_metrics" /\ Len(planets) = 9)
           => result.val.out.ok

\* The same statement for the seven classical planets only
C13_ClassicalPlanetsAccepted ==
    /\ result.fn \in {"calculate_dignity", "calculate_shadbala",
                      "calculate_relationships", "PlanetInfo::new"}
           => (result.val.planet.name \in ClassicalPlanets => result.val.out.ok)
    /\ (/\ result.fn = "calculate_strength_metrics"
        /\ \A i \in 1..Len(planets) : planets[i].name \in ClassicalPlanets
        /\ (find_planet(planets, "Moon") # 0 => find_planet(planets, "Sun") # 0))
           => result.val.out.ok

\* calculate_relationships alone accepts all nine bodies
C13_RelationshipsAcceptNine ==
    result.fn = "calculate_relationships" => result.val.out.ok

\* The lookups that find their body report nothing, those that miss it report
\* a CalculationError
ReportsMissing(out) == ~out.ok /\ out.err = "CalculationError"

\* The lords of the twelve houses
HouseLords == {get_house_lord(h) : h \in 1..12}

\* C14: a computation that needs the position of a body absent from the planet
\* list (the Moon in get_moon_longitude, the Sun in is_waxing_moon, a house's
\* lord in calculate_bhava_bala) returns a CalculationError rather than an Ok
\* result built from a defaulted (zero) value.
C14_MissingBodySurfaced ==
    /\ (result.fn = "get_moon_longitude" /\ find_planet(planets, "Moon") = 0)
           => ReportsMissing(result.val.out)
    /\ (result.fn = "is_waxing_moon" /\ find_planet(planets, "Sun") = 0)
           => ReportsMissing(result.val.out)
    /\ (result.fn = "calculate_bhava_bala"
        /\ \E l \in HouseLords : find_planet(planets, l) = 0)
           => ReportsMissing(result.val.out)

\* The part of the statement about the Moon and Sun lookups
C14_MoonAndSunLookups ==
    /\ (result.fn = "get_moon_longitude" /\ find_planet(planets, "Moon") = 0)
           => ReportsMissing(result.val.out)
    /\ (result.fn = "is_waxing_moon" /\ find_planet(planets, "Sun") = 0)
           => ReportsMissing(result.val.out)

(***************************************************************************)
(* weekday_string                                                          *)
(* A Julian Day is held in quarter days.                                   *)
(***************************************************************************)
QuartersPerDay == 2 * 2

\* Julian Days within MaxJdQuarters quarter days of 0 and of J2000
MaxJdQuarters == 60
JdInputs ==
    {base * QuartersPerDay + q :
        base \in {0, J2000}, q \in (0 - MaxJdQuarters)..MaxJdQuarters}

\* The seven names of weekday_string, in ASCII (the source's diacritics dropped)
weekday_names == <<"Soma", "Mangala", "Budha", "Guru", "Sukra", "Sani", "Ravi">>

\* `x as i64` for an f64 held in quarter days: truncation toward zero
f64_as_i64(quarters) ==
    IF quarters >= 0 THEN quarters \div QuartersPerDay
    ELSE 0 - ((0 - quarters) \div QuartersPerDay)

\* i64 `%`: the remainder takes the sign of the dividend
i64_rem(a, n) == IF a >= 0 THEN a % n ELSE 0 - ((0 - a) % n)

\* `x as usize` for an i64: a negative value wraps to 2^64 + x, which is far
\* above every match arm; 7 stands for any such value
i64_as_usize(x) == IF x >= 0 THEN x ELSE 7

\* "unreachable" is the panic of the unreachable!() arm
weekday_string(jd) ==
    LET jd_plus == jd + (QuartersPerDay \div 2)
        day == i64_as_usize(i64_rem(f64_as_i64(jd_plus), 7))
    IN  IF day \in 0..6 THEN weekday_names[day + 1] ELSE "unreachable"

InitWeekday ==
    /\ asc = [deg |-> 0, frac |-> 0]
    /\ lon = 0
    /\ moon_longitude = 0
    /\ birth_jd = 0
    /\ planets = <<>>
    /\ args \in [jd : JdInputs]
    /\ result = NoResult

WeekdayString ==
    /\ result' = [fn |-> "weekday_string", val |-> weekday_string(args.jd)]
    /\ UNCHANGED <<asc, lon, moon_longitude, birth_jd, planets, args>>

NextWeekday == WeekdayString

SpecWeekday == InitWeekday /\ [][NextWeekday]_vars

IsWeekdayResult == result.fn = "weekday_string"

\* floor(JD + 0.5) mod 7
floor_weekday_index(jd) == ((jd + (QuartersPerDay \div 2)) \div QuartersPerDay) % 7

\* C15: for every Julian Day, negative ones included, weekday_string returns the
\* name at index floor(JD + 0.5) mod 7 (index 0 = "Soma") and never reaches the
\* unreachable!() arm.
C15_WeekdayByFloor ==
    IsWeekdayResult =>
        /\ result.val # "unreachable"
        /\ result.val = weekday_names[floor_weekday_index(args.jd) + 1]

\* The same statement for Julian Days of -0.5 and later
C15_WeekdayFromMinusHalf ==
    (IsWeekdayResult /\ args.jd >= 0 - (QuartersPerDay \div 2)) =>
        /\ result.val # "unreachable"
        /\ result.val = weekday_names[floor_weekday_index(args.jd) + 1]

(***************************************************************************)
(* date_to_jd                                                              *)
(* The Julian Day returned is [half_days, seconds], standing for           *)
(* half_days / 2 + seconds / 86400 days.                                   *)
(***************************************************************************)
\* The Gregorian calendar
is_leap_year(y) == (y % 4 = 0 /\ y % 100 # 0) \/ y % 400 = 0
days_in_month(y, m) ==
    CASE m \in {1, 3, 5, 7, 8, 10, 12} -> 31
      [] m \in {4, 6, 9, 11} -> 30
      [] OTHER -> IF is_leap_year(y) THEN 29 ELSE 28

\* Dates of the years 2000 - YearSpan .. 2000 + YearSpan, at the listed times
YearSpan == 101
TimeInputs == {<<12, 0, 0>>, <<0, 0, 0>>, <<23, 59, 59>>}
DateInputs ==
    {[year |-> y, month |-> m, day |-> d, hour |-> t[1], minute |-> t[2], second |-> t[3]] :
        y \in (2000 - YearSpan)..(2000 + YearSpan), m \in 1..12, d \in 1..31,
        t \in TimeInputs}

\* b for a proleptic Julian date: no century correction
julian_calendar_b(a) == 0

\* let b = 2.0 - a + (a / 4.0).floor()
gregorian_b(a) == (2 - a) + (a \div 4)

date_to_jd(year, month, day, hour, minute, second) ==
    LET shifted == month <= 2
        y == IF shifted THEN year - 1 ELSE year
        m == IF shifted THEN month + 12 ELSE month
        a == y \div 100
        b == gregorian_b(a)
        \* (365.25 * (y + 4716.0)).floor() and (30.6001 * (m + 1.0)).floor()
        year_days == (1461 * (y + 4716)) \div 4
        month_days == (306001 * (m + 1)) \div 10000
    IN  [half_days |-> 2 * (year_days + month_days + day + b) - 3049,
         seconds |-> hour * 3600 + minute * 60 + second]

InitDateToJd ==
    /\ asc = [deg |-> 0, frac |-> 0]
    /\ lon = 0
    /\ moon_longitude = 0
    /\ birth_jd = 0
    /\ planets = <<>>
    /\ args \in {x \in DateInputs : x.day <= days_in_month(x.year, x.month)}
    /\ result = NoResult

DateToJd ==
    /\ result' = [fn |-> "date_to_jd",
                  val |-> date_to_jd(args.year, args.month, args.day,
                                     args.hour, args.minute, args.second)]
    /\ UNCHANGED <<asc, lon, moon_longitude, birth_jd, planets, args>>

NextDateToJd == DateToJd

SpecDateToJd == InitDateToJd /\ [][NextDateToJd]_vars

IsDateToJdResult == result.fn = "date_to_jd"

\* Calendar days from 2000-01-01 to the first day of year y
days_to_year_start(y) ==
    IF y >= 2000
    THEN 365 * (y - 2000) + Cardinality({k \in 2000..(y - 1) : is_leap_year(k)})
    ELSE 0 - (365 * (2000 - y) + Cardinality({k \in y..1999 : is_leap_year(k)}))

\* Calendar days from the first day of year y to the first day of its month m
RECURSIVE days_to_month_start(_, _)
days_to_month_start(y, m) ==
    IF m = 1 THEN 0 ELSE days_to_month_start(y, m - 1) + days_in_month(y, m - 1)

\* Calendar days from 2000-01-01 to the date
days_from_2000(y, m, d) == days_to_year_start(y) + days_to_month_start(y, m) + (d - 1)

AtNoon == args.hour = 12 /\ args.minute = 0 /\ args.second = 0

\* C16: date_to_jd(2000,1,1,12,0,0) = 2451545.0, and for every valid Gregorian
\* date of the range date_to_jd(date, 12,0,0) = 2451545 + the number of calendar
\* days from 2000-01-01 to that date.
C16_DayCountFromJ2000 ==
    (IsDateToJdResult /\ AtNoon) =>
        /\ result.val.seconds = 12 * 3600
        /\ result.val.half_days + 1
               = 2 * (J2000 + days_from_2000(args.year, args.month, args.day))
        /\ (args.year = 2000 /\ args.month = 1 /\ args.day = 1)
               => result.val.half_days + 1 = 2 * J2000

\* The noon Julian Day of 2100-03-01 has been computed: the day after a
\* century year's missing leap day, 36584 days after J2000.
C16_Witness ==
    /\ IsDateToJdResult
    /\ AtNoon
    /\ args.year = 2100 /\ args.month = 3 /\ args.day = 1
    /\ days_from_2000(2100, 3, 1) = 36584
    /\ result.val.half_days + 1 = 2 * (J2000 + 36584)

(***************************************************************************)
(* normalize_degrees                                                       *)
(* An f64 angle is [deg, sub]: deg whole degrees plus sub quanta of        *)
(* 2^-46 degree, |sub| small.  Between 256 and 512 the f64 values are      *)
(* 2^-44 degree (4 quanta) apart, between 128 and 256 they are 2 quanta    *)
(* apart, and below 128 every [deg, sub] used here is an f64 value.        *)
(***************************************************************************)
\* Inputs: the tiny values around zero, whole degrees of either sign up to large
\* magnitudes, and the f64 neighbours 8 quanta to either side of a whole degree
MaxSub == 9
MaxNormDeg == 800
HugeDeg == 1000 * Micro + 7
NormalizeInputs ==
    {[deg |-> 0, sub |-> s] : s \in (0 - MaxSub)..MaxSub}
        \cup {[deg |-> d, sub |-> s] : d \in (0 - MaxNormDeg)..MaxNormDeg, s \in {0 - 8, 0, 8}}
        \cup {[deg |-> HugeDeg, sub |-> 0], [deg |-> 0 - HugeDeg, sub |-> 0]}

f64_is_negative(x) == x.deg < 0 \/ (x.deg = 0 /\ x.sub < 0)

\* The number of the interval [0, 360) congruent to x modulo 360, exactly
euclidean_remainder_360(x) ==
    LET d == x.deg % 360
    IN  IF d = 0 /\ x.sub < 0 THEN [deg |-> 360, sub |-> x.sub]
        ELSE [deg |-> d, sub |-> x.sub]

\* Quanta between neighbouring f64 values around x, for 0 <= x <= 360
f64_spacing(x) ==
    IF x.deg > 256 \/ (x.deg = 256 /\ x.sub >= 0) THEN 4
    ELSE IF x.deg > 128 \/ (x.deg = 128 /\ x.sub >= 0) THEN 2
    ELSE 1

\* Round to the nearest f64 value, ties to the even one
f64_round(x) ==
    LET sp == f64_spacing(x)
        lo == (x.sub \div sp) * sp
        r == x.sub - lo
        up == (2 * r > sp) \/ (2 * r = sp /\ (lo \div sp) % 2 = 1)
    IN  [deg |-> x.deg, sub |-> IF up THEN lo + sp ELSE lo]

\* f64::rem_euclid(360.0): r = x % 360.0 (exact, with the sign of x), then
\* r + 360.0 (rounded) when r < 0.0
rem_euclid(x) ==
    LET e == euclidean_remainder_360(x)
    IN  IF f64_is_negative(x) /\ e # [deg |-> 0, sub |-> 0] THEN f64_round(e) ELSE e

normalize_degrees(deg) == rem_euclid(deg)

InitNormalize ==
    /\ asc = [deg |-> 0, frac |-> 0]
    /\ lon = 0
    /\ moon_longitude = 0
    /\ birth_jd = 0
    /\ planets = <<>>
    /\ args \in [deg : NormalizeInputs]
    /\ result = NoResult

\* normalize_degrees(x), and normalize_degrees applied to what it returned
NormalizeDegrees ==
    /\ result' = [fn |-> "normalize_degrees",
                  val |-> [once |-> normalize_degrees(args.deg),
                           twice |-> normalize_degrees(normalize_degrees(args.deg))]]
    /\ UNCHANGED <<asc, lon, moon_longitude, birth_jd, planets, args>>

NextNormalize == NormalizeDegrees

SpecNormalize == InitNormalize /\ [][NextNormalize]_vars

IsNormalizeResult == result.fn = "normalize_degrees"

\* 0 <= x < 360
InHalfOpenCircle(x) ==
    \/ x.deg \in 0..359 /\ x.sub >= 0
    \/ x.deg \in 1..360 /\ x.sub < 0

\* C17: normalize_degrees is idempotent for every input, negative values and
\* large magnitudes included, and its result lies in [0,360).
C17_NormalizeIdempotent ==
    IsNormalizeResult =>
        /\ result.val.twice = result.val.once
        /\ InHalfOpenCircle(result.val.once)

\* The same statement for inputs that are not negative
C17_IdempotentFromZero ==
    (IsNormalizeResult /\ ~f64_is_negative(args.deg)) =>
        /\ result.val.twice = result.val.once
        /\ InHalfOpenCircle(result.val.once)

\* The same statement for whole degrees of either sign
C17_IdempotentOnWholeDegrees ==
    (IsNormalizeResult /\ args.deg.sub = 0) =>
        /\ result.val.twice = result.val.once
        /\ InHalfOpenCircle(result.val.once)

(***************************************************************************)
(* rasi_details                                                            *)
(***************************************************************************)
sign_names ==
    <<"Mesha (Aries)", "Vrishabha (Taurus)", "Mithuna (Gemini)", "Karka (Cancer)",
      "Simha (Leo)", "Kanya (Virgo)", "Tula (Libra)", "Vrischika (Scorpio)",
      "Dhanus (Sagittarius)", "Makara (Capricorn)", "Kumbha (Aquarius)",
      "Meena (Pisces)">>

\* The sign index taken to the nearest sign boundary instead of the one below
sign_idx_nearest(lon_deg) == ((lon_deg + SignSpan \div 2) \div SignSpan) % 12

\* (lon_deg / 30.0).floor() as usize % 12, for lon_deg >= 0
sign_idx_of(lon_deg) == (lon_deg \div SignSpan) % 12

\* rasi_details(lon_deg) = (sign_name, d_whole, m_whole, s_f); s_f is counted
\* in 1e-6 seconds of arc
rasi_details(lon_deg) ==
    LET sign_idx == sign_idx_of(lon_deg)
        degrees_in_sign == lon_deg - sign_idx * SignSpan
        d_whole == degrees_in_sign \div Micro
        m_f == (degrees_in_sign - d_whole * Micro) * 60
        m_whole == m_f \div Micro
        s_f == (m_f - m_whole * Micro) * 60
    IN  [sign_name |-> sign_names[sign_idx + 1], d_whole |-> d_whole,
         m_whole |-> m_whole, s_f |-> s_f]

InitRasiDetails ==
    /\ asc = [deg |-> 0, frac |-> 0]
    /\ lon \in LonInputs
    /\ moon_longitude = 0
    /\ birth_jd = 0
    /\ planets = <<>>
    /\ args = NoArgs
    /\ result = NoResult

RasiDetails ==
    /\ result' = [fn |-> "rasi_details", val |-> rasi_details(lon)]
    /\ UNCHANGED <<asc, lon, moon_longitude, birth_jd, planets, args>>

NextRasiDetails == RasiDetails

SpecRasiDetails == InitRasiDetails /\ [][NextRasiDetails]_vars

IsRasiDetailsResult == result.fn = "rasi_details"

\* C18: for every longitude in [0,360), rasi_details returns the sign name at
\* index floor(lon/30), in 0..11, with degrees in 0..29, minutes in 0..59 and
\* seconds in [0,60) such that degrees + minutes/60 + seconds/3600 is the
\* longitude within the sign; rasi_details(0) is the first sign at 0, 0, 0.
C18_SexagesimalDecomposition ==
    IsRasiDetailsResult =>
        LET r == result.val
            index == lon \div SignSpan
            \* (minutes/60 + seconds/3600) degrees, in 1e-6 degrees, times 60
            sixty_fractions == r.m_whole * Micro + r.s_f \div 60
        IN  /\ index \in 0..11
            /\ r.sign_name = sign_names[index + 1]
            /\ r.d_whole \in 0..29
            /\ r.m_whole \in 0..59
            /\ r.s_f >= 0 /\ r.s_f < 60 * Micro
            /\ r.s_f % 60 = 0
            /\ sixty_fractions % 60 = 0
            /\ r.d_whole * Micro + sixty_fractions \div 60 = lon - index * SignSpan
            /\ lon = 0 => r = [sign_name |-> "Mesha (Aries)", d_whole |-> 0,
                               m_whole |-> 0, s_f |-> 0]

\* The details of the last grid longitude below 360 have been computed: the
\* twelfth sign at 29 degrees 59 minutes 59.9964 seconds
C18_Witness ==
    /\ IsRasiDetailsResult
    /\ lon = FullCircle - 1
    /\ result.val = [sign_name |-> "Meena (Pisces)", d_whole |-> 29,
                     m_whole |-> 59, s_f |-> 59996400]

(***************************************************************************)
(* Houses counted from the ascendant                                       *)
(***************************************************************************)
\* floor(((lon - asc) mod 360) / 30) + 1: the house, 1..12, a planet occupies
house_from_ascendant(planet, a) ==
    ((planet.sidereal_long_deg - asc_on_grid(a)) % FullCircle) \div SignSpan + 1

\* The directionally strong house of each classical planet
strong_house(name) ==
    CASE name \in {"Sun", "Mars"} -> 10
      [] name \in {"Moon", "Venus"} -> 4
      [] name \in {"Mercury", "Jupiter"} -> 1
      [] name = "Saturn" -> 7

\* C19: for each of the seven classical planets and every planet longitude and
\* ascendant in [0,360), calculate_shadbala sets dig_bala to 1.0 exactly when
\* the planet occupies its directionally strong house counted from the
\* ascendant, and to 0 otherwise, also when the longitude is below the ascendant.
C19_DigBalaInStrongHouse ==
    (result.fn = "calculate_shadbala" /\ result.val.planet.name \in ClassicalPlanets) =>
        /\ result.val.out.ok
        /\ result.val.out.value.dig_bala =
               IF house_from_ascendant(result.val.planet, asc)
                      = strong_house(result.val.planet.name)
               THEN Milli ELSE 0

\* The same statement for planets at or beyond the ascendant
C19_DigBalaBeyondAscendant ==
    (/\ result.fn = "calculate_shadbala"
     /\ result.val.planet.name \in ClassicalPlanets
     /\ result.val.planet.sidereal_long_deg >= asc_on_grid(asc)) =>
        /\ result.val.out.ok
        /\ result.val.out.value.dig_bala =
               IF house_from_ascendant(result.val.planet, asc)
                      = strong_house(result.val.planet.name)
               THEN Milli ELSE 0

RECURSIVE SumStrengths(_, _)
SumStrengths(strengths, h) ==
    IF h = 0 THEN 0 ELSE strengths[h].strength + SumStrengths(strengths, h - 1)

\* C20: for every ascendant and planet list with longitudes in [0,360),
\* calculate_house_strengths counts each planet in exactly one of the 12 houses:
\* each strength is the base weight plus 0.5 per occupant, and the 12 strengths
\* sum to 9.0 + 0.5 * (number of planets).
C20_EveryPlanetInOneHouse ==
    result.fn = "calculate_house_strengths" =>
        LET s == result.val.out.value
        IN  /\ result.val.out.ok
            /\ \A i \in 1..Len(planets) :
                   Cardinality({h \in 1..12 : i \in occupants(planets, asc, h)}) = 1
            /\ \A h \in 1..12 :
                   s[h].strength =
                       house_base_strength(h)
                       + 500 * Cardinality({i \in 1..Len(planets) :
                                     house_from_ascendant(planets[i], asc) = h})
            /\ SumStrengths(s, 12) = 9 * Milli + 500 * Len(planets)

\* The same statement for lists whose planets are all at or beyond the ascendant
C20_PlanetsBeyondAscendant ==
    (/\ result.fn = "calculate_house_strengths"
     /\ \A i \in 1..Len(planets) : planets[i].sidereal_long_deg >= asc_on_grid(asc)) =>
        SumStrengths(result.val.out.value, 12) = 9 * Milli + 500 * Len(planets)

(***************************************************************************)
(* Yogas                                                                   *)
(* A Yoga record is [name, description, strength]; the description holds   *)
(* the values formatted into the source's text.                            *)
(***************************************************************************)
is_kendra_lord(planet, house) ==
    <<planet, house>> \in
        {<<"Mars", 0>>, <<"Venus", 3>>, <<"Mercury", 6>>, <<"Moon", 9>>,
         <<"Sun", 0>>, <<"Mercury", 3>>, <<"Venus", 6>>, <<"Mars", 9>>,
         <<"Jupiter", 0>>, <<"Saturn", 3>>, <<"Saturn", 6>>, <<"Jupiter", 9>>}

is_trikona_lord(planet, house) ==
    <<planet, house>> \in
        {<<"Mars", 0>>, <<"Sun", 4>>, <<"Jupiter", 8>>, <<"Venus", 0>>,
         <<"Mercury", 4>>, <<"Saturn", 8>>}

get_ruling_signs(planet) ==
    CASE planet = "Sun" -> {4}
      [] planet = "Moon" -> {3}
      [] planet = "Mars" -> {0, 7}
      [] planet = "Mercury" -> {2, 5}
      [] planet = "Jupiter" -> {8, 11}
      [] planet = "Venus" -> {1, 6}
      [] planet = "Saturn" -> {9, 10}
      [] OTHER -> {}

are_in_mutual_reception(planet1, planet2) ==
    /\ sign_of(planet2) \in get_ruling_signs(planet1.name)
    /\ sign_of(planet1) \in get_ruling_signs(planet2.name)

\* The signs is_in_own_or_exaltation accepts for each planet
own_or_exaltation_signs(name) ==
    CASE name = "Sun" -> {4, 0}
      [] name = "Moon" -> {3, 1}
      [] name = "Mars" -> {0, 7, 9}
      [] name = "Mercury" -> {2, 5}
      [] name = "Jupiter" -> {8, 11, 3}
      [] name = "Venus" -> {1, 6, 11}
      [] name = "Saturn" -> {9, 10, 6}
      [] OTHER -> {}

is_in_own_or_exaltation(planet) == sign_of(planet) \in own_or_exaltation_signs(planet.name)

debilitation_signs(name) ==
    CASE name = "Sun" -> {6}
      [] name = "Moon" -> {7}
      [] name = "Mars" -> {3}
      [] name = "Mercury" -> {11}
      [] name = "Jupiter" -> {9}
      [] name = "Venus" -> {5}
      [] name = "Saturn" -> {0}
      [] OTHER -> {}

is_debilitated(planet) == sign_of(planet) \in debilitation_signs(planet.name)

\* strength.max(0.0).min(2.0)
clamp_0_2(strength) ==
    LET lower == IF strength > 0 THEN strength ELSE 0
    IN  IF lower < 2 * Milli THEN lower ELSE 2 * Milli

\* A strength that subtracts 0.5 only when both planets are debilitated
raja_yoga_strength_penalty_if_both(planet1, planet2) ==
    Milli
    + (IF are_in_mutual_reception(planet1, planet2) THEN 500 ELSE 0)
    + (IF is_in_own_or_exaltation(planet1) THEN 250 ELSE 0)
    + (IF is_in_own_or_exaltation(planet2) THEN 250 ELSE 0)
    - (IF is_debilitated(planet1) /\ is_debilitated(planet2) THEN 500 ELSE 0)

\* The strength before the final max/min
raja_yoga_raw_strength(planet1, planet2) ==
    Milli
    + (IF are_in_mutual_reception(planet1, planet2) THEN 500 ELSE 0)
    + (IF is_in_own_or_exaltation(planet1) THEN 250 ELSE 0)
    + (IF is_in_own_or_exaltation(planet2) THEN 250 ELSE 0)
    - (IF is_debilitated(planet1) \/ is_debilitated(planet2) THEN 500 ELSE 0)

calculate_raja_yoga_strength(planet1, planet2) ==
    clamp_0_2(raja_yoga_raw_strength(planet1, planet2))

\* The record check_raja_yogas pushes for the ordered pair, <<>> if none
raja_yoga_of_pair(planet1, planet2) ==
    LET house1 == sign_of(planet1)
        house2 == sign_of(planet2)
    IN  IF /\ planet1.name # planet2.name
           /\ \/ is_kendra_lord(planet1.name, house1) /\ is_trikona_lord(planet2.name, house2)
              \/ is_kendra_lord(planet2.name, house2) /\ is_trikona_lord(planet1.name, house1)
        THEN <<[name |-> "Raja Yoga",
                description |-> <<planet1.name, planet1.sidereal_long_deg,
                                  planet2.name, planet2.sidereal_long_deg>>,
                strength |-> calculate_raja_yoga_strength(planet1, planet2)]>>
        ELSE <<>>

\* The records pushed by the pairs numbered n.. of the double loop, the pair
\* numbered n being (planets[n div L + 1], planets[n mod L + 1])
RECURSIVE raja_yogas_from(_, _)
raja_yogas_from(ps, n) ==
    IF n >= Len(ps) * Len(ps) THEN <<>>
    ELSE raja_yoga_of_pair(ps[(n \div Len(ps)) + 1], ps[(n % Len(ps)) + 1])
             \o raja_yogas_from(ps, n + 1)

check_raja_yogas(ps) == raja_yogas_from(ps, 0)

\* floor(lon / 30) is 1 or 10
dhana_qualifies(planet) == (planet.sidereal_long_deg \div SignSpan) \in {1, 10}

dhana_yoga_of_pair(planet, other) ==
    IF dhana_qualifies(planet) /\ dhana_qualifies(other)
    THEN <<[name |-> "Dhana Yoga",
            description |-> <<planet.name, other.name>>,
            strength |-> 750]>>
    ELSE <<>>

RECURSIVE dhana_yogas_from(_, _)
dhana_yogas_from(ps, n) ==
    IF n >= Len(ps) * Len(ps) THEN <<>>
    ELSE dhana_yoga_of_pair(ps[(n \div Len(ps)) + 1], ps[(n % Len(ps)) + 1])
             \o dhana_yogas_from(ps, n + 1)

check_dhana_yogas(ps) == dhana_yogas_from(ps, 0)

\* The yoga name and the signs tested for each of the five planets
mahapurusha_name(planet) ==
    CASE planet = "Mars" -> "Ruchaka Yoga"
      [] planet = "Mercury" -> "Bhadra Yoga"
      [] planet = "Jupiter" -> "Hamsa Yoga"
      [] planet = "Venus" -> "Malavya Yoga"
      [] planet = "Saturn" -> "Sasa Yoga"
      [] OTHER -> "none"

mahapurusha_signs(planet) ==
    CASE planet = "Mars" -> {0, 7, 9}
      [] planet = "Mercury" -> {2, 5}
      [] planet = "Jupiter" -> {8, 11, 3}
      [] planet = "Venus" -> {1, 6, 11}
      [] planet = "Saturn" -> {9, 10, 6}
      [] OTHER -> {}

\* let kendras = [0, 3, 6, 9]
kendras == {0, 3, 6, 9}

mahapurusha_yoga_of(planet) ==
    LET house == sign_of(planet)
        sign == sign_of(planet)
    IN  IF house \in kendras /\ sign \in mahapurusha_signs(planet.name)
        THEN <<[name |-> mahapurusha_name(planet.name),
                description |-> <<planet.name>>,
                strength |-> Milli]>>
        ELSE <<>>

RECURSIVE check_mahapurusha_yogas(_)
check_mahapurusha_yogas(ps) ==
    IF ps = <<>> THEN <<>>
    ELSE mahapurusha_yoga_of(Head(ps)) \o check_mahapurusha_yogas(Tail(ps))

\* houses_occupied, indexed 0..11
houses_occupied(ps) ==
    [h \in 0..11 |-> \E i \in 1..Len(ps) : (ps[i].sidereal_long_deg \div SignSpan) % 12 = h]

\* A Rajju loop that scans the twelve houses once, without the second pass
RECURSIVE rajju_found_single_pass(_, _, _)
rajju_found_single_pass(occupied, i, consecutive) ==
    IF i >= 12 THEN FALSE
    ELSE IF occupied[i % 12]
    THEN (consecutive + 1 >= 3) \/ rajju_found_single_pass(occupied, i + 1, consecutive + 1)
    ELSE rajju_found_single_pass(occupied, i + 1, 0)

\* The Rajju loop from step i with the running count `consecutive`: TRUE when
\* the record is pushed
RECURSIVE rajju_found(_, _, _)
rajju_found(occupied, i, consecutive) ==
    IF i >= 24 THEN FALSE
    ELSE IF occupied[i % 12]
    THEN (consecutive + 1 >= 3) \/ rajju_found(occupied, i + 1, consecutive + 1)
    ELSE rajju_found(occupied, i + 1, 0)

check_nabhasa_yogas(ps) ==
    LET rajju == IF rajju_found(houses_occupied(ps), 0, 0)
                 THEN <<[name |-> "Rajju Yoga", description |-> <<>>, strength |-> 750]>>
                 ELSE <<>>
        in_kendras == \A i \in 1..Len(ps) : sign_of(ps[i]) \in {0, 3, 6, 9}
        musala == IF in_kendras
                  THEN <<[name |-> "Musala Yoga", description |-> <<>>, strength |-> Milli]>>
                  ELSE <<>>
    IN  rajju \o musala

\* calculate_all_yogas(planets, asc): asc is not used
calculate_all_yogas(ps, a) ==
    check_raja_yogas(ps) \o check_dhana_yogas(ps)
        \o check_mahapurusha_yogas(ps) \o check_nabhasa_yogas(ps)

\* Planet lists handed to the yoga checks: none, every single body and every
\* pair of distinct bodies in every sign, and Sun, Moon and Mars in every
\* combination of signs
YogaPlanetInputs ==
    {<<>>}
        \cup {<<p>> : p \in Placements(1)}
        \cup {pq \in Placements(1) \X Placements(1) :
                 BodyIndex(pq[1].name) < BodyIndex(pq[2].name)}
        \cup {<<[name |-> "Sun", sidereal_long_deg |-> a * SignSpan + (PlanetDegree % 30) * Micro],
                [name |-> "Moon", sidereal_long_deg |-> b * SignSpan + (PlanetDegree % 30) * Micro],
                [name |-> "Mars", sidereal_long_deg |-> c * SignSpan + (PlanetDegree % 30) * Micro]>> :
                 a \in 0..11, b \in 0..11, c \in 0..11}
YogaAscInputs == {[deg |-> 30 * s, frac |-> 0] : s \in {0, 2, 5}}

InitYogas ==
    /\ asc \in YogaAscInputs
    /\ lon = 0
    /\ moon_longitude = 0
    /\ birth_jd = 0
    /\ planets \in {ps \in YogaPlanetInputs : DistinctNames(ps)}
    /\ args = NoArgs
    /\ result = NoResult

CheckRajaYogas ==
    /\ result' = [fn |-> "check_raja_yogas", val |-> check_raja_yogas(planets)]
    /\ UNCHANGED <<asc, lon, moon_longitude, birth_jd, planets, args>>

CheckDhanaYogas ==
    /\ result' = [fn |-> "check_dhana_yogas", val |-> check_dhana_yogas(planets)]
    /\ UNCHANGED <<asc, lon, moon_longitude, birth_jd, planets, args>>

CheckMahapurushaYogas ==
    /\ result' = [fn |-> "check_mahapurusha_yogas", val |-> check_mahapurusha_yogas(planets)]
    /\ UNCHANGED <<asc, lon, moon_longitude, birth_jd, planets, args>>

CheckNabhasaYogas ==
    /\ result' = [fn |-> "check_nabhasa_yogas", val |-> check_nabhasa_yogas(planets)]
    /\ UNCHANGED <<asc, lon, moon_longitude, birth_jd, planets, args>>

CalculateAllYogas ==
    /\ result' = [fn |-> "calculate_all_yogas", val |-> calculate_all_yogas(planets, asc)]
    /\ UNCHANGED <<asc, lon, moon_longitude, birth_jd, planets, args>>

NextYogas ==
    \/ CheckRajaYogas
    \/ CheckDhanaYogas
    \/ CheckMahapurushaYogas
    \/ CheckNabhasaYogas
    \/ CalculateAllYogas

SpecYogas == InitYogas /\ [][NextYogas]_vars

\* The records of the given name in a yoga list
YogasNamed(yogas, name) == {k \in 1..Len(yogas) : yogas[k].name = name}

MahapurushaPlanets == {"Mars", "Mercury", "Jupiter", "Venus", "Saturn"}

\* The planet is in a sign it rules or in its exaltation sign
InOwnOrExaltedSign(planet) ==
    sign_of(planet) \in get_ruling_signs(planet.name) \cup {dignity_signs(planet.name)[3]}

\* C21: each of the five Pancha Mahapurusha yogas is appended by
\* check_mahapurusha_yogas exactly when its planet is in one of its own signs or
\* its exaltation sign and in an angular house (1, 4, 7 or 10); each of the five
\* is produced by some placement of its planet.
C21_MahapurushaInAngularHouse ==
    result.fn = "check_mahapurusha_yogas" =>
        \A i \in 1..Len(planets) :
            planets[i].name \in MahapurushaPlanets =>
                (YogasNamed(result.val, mahapurusha_name(planets[i].name)) # {}
                    <=> /\ InOwnOrExaltedSign(planets[i])
                        /\ house_from_ascendant(planets[i], asc) \in {1, 4, 7, 10})

\* No placement of Mercury produces Bhadra Yoga
C21_BhadraNeverAppended ==
    result.fn = "check_mahapurusha_yogas" => YogasNamed(result.val, "Bhadra Yoga") = {}

\* With the ascendant at 0 degrees (houses and signs coincide) the four other
\* yogas are appended exactly as stated
C21_OtherFourWithAriesAscendant ==
    (result.fn = "check_mahapurusha_yogas" /\ asc.deg = 0) =>
        \A i \in 1..Len(planets) :
            planets[i].name \in MahapurushaPlanets =>
                (YogasNamed(result.val, mahapurusha_name(planets[i].name)) # {}
                    <=> /\ InOwnOrExaltedSign(planets[i])
                        /\ house_from_ascendant(planets[i], asc) \in {1, 4, 7, 10})


\* Some planet of the list is in the house (sign) of index h
HouseOccupied(h) == \E i \in 1..Len(planets) : sign_of(planets[i]) = h

StatedRajaYogaScore(planet1, planet2) ==
    LET score == Milli
                 + (IF are_in_mutual_reception(planet1, planet2) THEN Milli \div 2 ELSE 0)
                 + (IF is_in_own_or_exaltation(planet1) THEN Milli \div 4 ELSE 0)
                 + (IF is_in_own_or_exaltation(planet2) THEN Milli \div 4 ELSE 0)
                 - (IF is_debilitated(planet1) \/ is_debilitated(planet2)
                    THEN Milli \div 2 ELSE 0)
    IN  IF score < 0 THEN 0 ELSE IF score > 2 * Milli THEN 2 * Milli ELSE score

\* C23: every Raja Yoga record pushed by check_raja_yogas has a strength in
\* [0, 2], equal to the stated score of the two planets its description names.
C23_RajaYogaStrengthInRange ==
    result.fn = "check_raja_yogas" =>
        \A k \in 1..Len(result.val) :
            /\ result.val[k].name = "Raja Yoga"
            /\ result.val[k].strength >= 0
            /\ result.val[k].strength <= 2 * Milli
            /\ \E i, j \in 1..Len(planets) :
                   /\ result.val[k].description =
                          <<planets[i].name, planets[i].sidereal_long_deg,
                            planets[j].name, planets[j].sidereal_long_deg>>
                   /\ result.val[k].strength = StatedRajaYogaScore(planets[i], planets[j])

\* A Raja Yoga is recorded for a pair with a debilitated planet, at a strength
\* below the base 1.0
C23_Witness ==
    /\ result.fn = "check_raja_yogas"
    /\ \E k \in 1..Len(result.val) : result.val[k].strength < Milli
    /\ \E i \in 1..Len(planets) : is_debilitated(planets[i])


\* The planets of the list whose floor(longitude / 30) is 1 or 10
DhanaQualifying == {i \in 1..Len(planets) : dhana_qualifies(planets[i])}

\* C29: every Dhana Yoga record pushed by check_dhana_yogas names two distinct
\* planets; a list with exactly one qualifying planet yields no Dhana Yoga.
C29_DhanaYogaNamesTwoPlanets ==
    result.fn = "check_dhana_yogas" =>
        /\ \A k \in 1..Len(result.val) :
               result.val[k].description[1] # result.val[k].description[2]
        /\ (Cardinality(DhanaQualifying) = 1 => result.val = <<>>)

\* What the loop does: one record per ordered pair of qualifying planets, a
\* planet paired with itself included
C29_OneRecordPerOrderedPair ==
    result.fn = "check_dhana_yogas" =>
        Len(result.val) = Cardinality(DhanaQualifying) * Cardinality(DhanaQualifying)


\* C24: the own_sign flag of calculate_dignity is true exactly when the planet's
\* sign is one of the signs the planet rules, in agreement with is_own_sign and
\* get_ruling_signs (Mars both in Aries and in Scorpio, and so on).
C24_OwnSignIsARuledSign ==
    (result.fn = "calculate_dignity" /\ result.val.out.ok) =>
        /\ result.val.out.value.own_sign
               <=> sign_of(result.val.planet) \in get_ruling_signs(result.val.planet.name)
        /\ result.val.out.value.own_sign
               <=> is_own_sign(result.val.planet.name, sign_of(result.val.planet))

\* is_own_sign and get_ruling_signs agree with each other on every body and sign
C24_OwnSignTablesAgree ==
    result.fn = "calculate_dignity" =>
        (is_own_sign(result.val.planet.name, sign_of(result.val.planet))
            <=> sign_of(result.val.planet) \in get_ruling_signs(result.val.planet.name))

\* The own_sign flag never holds outside the ruled signs
C24_OwnSignImpliesRuledSign ==
    (result.fn = "calculate_dignity" /\ result.val.out.ok) =>
        (result.val.out.value.own_sign
            => sign_of(result.val.planet) \in get_ruling_signs(result.val.planet.name))


(***************************************************************************)
(* compute_karana.  get_moon and get_sun belong to the ephemeris crate;     *)
(* the radian values moon[1] and sun[1] are inputs.  Angles are counted in  *)
(* units of pi/120 rad (1.5 degrees): the Moon on even units, the Sun on    *)
(* odd units, so that no difference falls on a karana boundary.             *)
(***************************************************************************)
RadSteps == 240
KaranaMoonInputs == {2 * m : m \in 0..((RadSteps \div 2) - 1)}
KaranaSunInputs == {(2 * s) + 1 : s \in 0..((RadSteps \div 2) - 1)}

karanas ==
    <<"Bava", "Balava", "Kaulava", "Taitila", "Gara", "Vanija", "Visti",
      "Sakuni", "Chatushpada", "Naga", "Kimstughna">>

\* 360.0 * RAD_TO_DEG / 12.0 * 2.0 = 10800 / pi = 3437.7467..., in 1e-4
karana_idx_of_360 == 34377468

\* (normalize_degrees(moon_long - sun_long) * RAD_TO_DEG / 12.0 * 2.0).floor():
\* rem_euclid(360.0) leaves a difference in [0, 2 pi) as it is and adds 360.0 to
\* a difference in (-2 pi, 0); one unit of the difference is a quarter karana
karana_idx(moon_long, sun_long) ==
    LET diff == moon_long - sun_long
    IN  IF diff >= 0 THEN diff \div 4
        ELSE (karana_idx_of_360 + 2500 * diff) \div 10000

\* let k = if karana_idx < 56 { karana_idx % 7 } else { 7 + (karana_idx - 56) }
karana_k(idx) == IF idx < 56 THEN idx % 7 ELSE 7 + (idx - 56)

\* ((k + 1) as u8, karanas[k]); karanas[k] panics when k is not below 11
compute_karana(moon_long, sun_long) ==
    LET k == karana_k(karana_idx(moon_long, sun_long))
    IN  IF k < Len(karanas)
        THEN Ok([index |-> k + 1, name |-> karanas[k + 1]])
        ELSE Err("IndexOutOfBounds", k)

InitKarana ==
    /\ asc = [deg |-> 0, frac |-> 0]
    /\ lon = 0
    /\ moon_longitude = 0
    /\ birth_jd = 0
    /\ planets = <<>>
    /\ args \in [moon_long : KaranaMoonInputs, sun_long : KaranaSunInputs]
    /\ result = NoResult

ComputeKarana ==
    /\ result' = [fn |-> "compute_karana",
                  val |-> compute_karana(args.moon_long, args.sun_long)]
    /\ UNCHANGED <<asc, lon, moon_longitude, birth_jd, planets, args>>

NextKarana == ComputeKarana

SpecKarana == InitKarana /\ [][NextKarana]_vars

\* C25: compute_karana returns an index in 1..11 with the name at that place of
\* the 11-element table; the table index never leaves 0..10, for every pair of
\* Sun and Moon longitudes (radians) the ephemeris can return.
C25_KaranaIndexInTable ==
    result.fn = "compute_karana" =>
        /\ result.val.ok
        /\ result.val.value.index \in 1..11
        /\ result.val.value.name = karanas[result.val.value.index]

\* When the Moon's value is not below the Sun's the index stays in the table
C25_InTableWhenMoonAhead ==
    (result.fn = "compute_karana" /\ args.moon_long >= args.sun_long) =>
        /\ result.val.ok
        /\ result.val.value.index \in 1..11
        /\ result.val.value.name = karanas[result.val.value.index]

\* When the Moon's value is below the Sun's the table index is far past the end
C25_OutOfTableWhenMoonBehind ==
    (result.fn = "compute_karana" /\ args.moon_long < args.sun_long) =>
        /\ ~result.val.ok
        /\ result.val.value > 3000


(***************************************************************************)
(* compute_nakshatra and the nakshatra of a RashiPosition.  get_moon        *)
(* belongs to the ephemeris crate: the Moon's normalized sidereal longitude *)
(* at the Julian Day handed to compute_nakshatra is an input.               *)
(***************************************************************************)
nakshatras ==
    <<"Ashwini", "Bharani", "Krittika", "Rohini", "Mrigashira", "Ardra",
      "Punarvasu", "Pushya", "Ashlesha", "Magha", "Purva Phalguni",
      "Uttara Phalguni", "Hasta", "Chitra", "Swati", "Vishakha", "Anuradha",
      "Jyeshtha", "Mula", "Purva Ashadha", "Uttara Ashadha", "Shravana",
      "Dhanishtha", "Shatabhishak", "Purva Bhadrapada", "Uttara Bhadrapada",
      "Revati">>

\* Planet longitudes: the middle of every whole degree; ephemeris Moon
\* longitudes: MoonGridDegrees apart, half a degree off the whole degrees
MoonGridDegrees == 5
NakshatraLonInputs == {(d * Micro) + (Micro \div 2) : d \in 0..359}
EphemerisMoonInputs ==
    {(m * MoonGridDegrees * Micro) + (Micro \div 2) : m \in 0..((360 \div MoonGridDegrees) - 1)}

\* compute_nakshatra(jd): moon_side_deg is normalize_degrees of the sidereal
\* longitude of get_moon(jd); index = (moon_side_deg / 13.3333333).floor(),
\* nak_idx = index % 27
compute_nakshatra(jd, moon_side_deg) ==
    LET index == floor_mul_div(moon_side_deg, 10, 133333333)
        nak_idx == index % 27
    IN  [index |-> nak_idx + 1, name |-> nakshatras[nak_idx + 1]]

\* nakshatra: compute_nakshatra(longitude).1 of calculate_rashi_position and of
\* the chart builders: the planet's longitude is passed as the Julian Day
rashi_position_nakshatra(longitude, moon_side_deg) ==
    compute_nakshatra(longitude, moon_side_deg).name

InitNakshatra ==
    /\ asc = [deg |-> 0, frac |-> 0]
    /\ lon \in NakshatraLonInputs
    /\ moon_longitude = 0
    /\ birth_jd = 0
    /\ planets = <<>>
    /\ args \in [moon_side_deg : EphemerisMoonInputs]
    /\ result = NoResult

RashiPositionNakshatra ==
    /\ result' = [fn |-> "rashi_position_nakshatra",
                  val |-> [nakshatra |-> rashi_position_nakshatra(lon, args.moon_side_deg)]]
    /\ UNCHANGED <<asc, lon, moon_longitude, birth_jd, planets, args>>

NextNakshatra == RashiPositionNakshatra

SpecNakshatra == InitNakshatra /\ [][NextNakshatra]_vars

\* floor(lon / 13deg20') with 13deg20' = 40/3 degrees
nakshatra_index_of(longitude) == (3 * longitude) \div (40 * Micro)

\* C26: the nakshatra stored in a RashiPosition is determined by the planet's
\* own longitude alone: it is the name at index floor(lon / 13deg20') of the
\* nakshatra table, whatever the ephemeris Moon and the date.
C26_NakshatraOfPlanetLongitude ==
    result.fn = "rashi_position_nakshatra" =>
        result.val.nakshatra = nakshatras[nakshatra_index_of(lon) + 1]

\* The stored name is the stated one when the ephemeris Moon of Julian Day `lon`
\* stands in the planet's own nakshatra
C26_RightWhenMoonInSameNakshatra ==
    (/\ result.fn = "rashi_position_nakshatra"
     /\ nakshatra_index_of(args.moon_side_deg) = nakshatra_index_of(lon)) =>
        result.val.nakshatra = nakshatras[nakshatra_index_of(lon) + 1]

\* and a different one when the Moon stands in another nakshatra
C26_WrongWhenMoonElsewhere ==
    (/\ result.fn = "rashi_position_nakshatra"
     /\ nakshatra_index_of(args.moon_side_deg) # nakshatra_index_of(lon)) =>
        result.val.nakshatra # nakshatras[nakshatra_index_of(lon) + 1]


(***************************************************************************)
(* The houses array of the divisional charts and of calculate_houses       *)
(***************************************************************************)
\* houses: of the Chart built for division d: calculate_panchamsa_chart calls
\* compute_whole_sign_houses, the 19 other builders calculate_whole_sign_houses
chart_houses(d, a) ==
    IF d = 5 THEN compute_whole_sign_houses(a) ELSE calculate_whole_sign_houses(a)

\* The houses arrays of the DivisionalCharts record, by division
calculate_all_divisional_charts(a) == [d \in Divisions |-> chart_houses(d, a)]

\* let cusps = calculate_whole_sign_houses(asc) of calculate_houses
calculate_houses_cusps(a) == calculate_whole_sign_houses(a)

InitChartHouses ==
    /\ asc \in AscInputs
    /\ lon = 0
    /\ moon_longitude = 0
    /\ birth_jd = 0
    /\ planets = <<>>
    /\ args = NoArgs
    /\ result = NoResult

CalculateAllDivisionalCharts ==
    /\ result' = [fn |-> "calculate_all_divisional_charts",
                  val |-> calculate_all_divisional_charts(asc)]
    /\ UNCHANGED <<asc, lon, moon_longitude, birth_jd, planets, args>>

CalculateHouses ==
    /\ result' = [fn |-> "calculate_houses", val |-> calculate_houses_cusps(asc)]
    /\ UNCHANGED <<asc, lon, moon_longitude, birth_jd, planets, args>>

NextChartHouses == CalculateAllDivisionalCharts \/ CalculateHouses

SpecChartHouses == InitChartHouses /\ [][NextChartHouses]_vars

\* C27: the 20 charts of calculate_all_divisional_charts all carry the same
\* houses array, the cusps calculate_houses returns for the ascendant.
C27_AllChartsCarryTheCusps ==
    result.fn = "calculate_all_divisional_charts" =>
        /\ \A d, e \in Divisions : result.val[d] = result.val[e]
        /\ \A d \in Divisions : result.val[d] = calculate_houses_cusps(asc)

\* The 19 charts other than D5 carry the cusps of calculate_houses
C27_AllButPanchamsaCarryTheCusps ==
    result.fn = "calculate_all_divisional_charts" =>
        \A d \in Divisions \ {5} : result.val[d] = calculate_houses_cusps(asc)

\* D5 carries them too when the ascendant is at most half of 1e-8 degrees past
\* the start of a sign
C27_PanchamsaAgreesAtSignStart ==
    (/\ result.fn = "calculate_all_divisional_charts"
     /\ asc.deg % 30 = 0
     /\ asc.frac < 5) =>
        result.val[5] = calculate_houses_cusps(asc)


(***************************************************************************)
(* House lords: determine_house_lords and get_house_lord                   *)
(***************************************************************************)
\* The match of determine_house_lords on the sign of a cusp
sign_lord(sign) ==
    CASE sign \in {0, 7} -> "Mars"
      [] sign \in {1, 6} -> "Venus"
      [] sign \in {2, 5} -> "Mercury"
      [] sign = 3 -> "Moon"
      [] sign = 4 -> "Sun"
      [] sign \in {8, 11} -> "Jupiter"
      [] sign \in {9, 10} -> "Saturn"
      [] OTHER -> "InvalidHouse"

\* (cusp / 30.0).floor() as usize, for the non-negative cusps of the house
\* functions
cusp_sign(cusp) == cusp.deg \div 30

\* The lords in house order, or the InvalidHouse error of the first cusp whose
\* sign is not 0..11
determine_house_lords(cusps) ==
    LET bad == {i \in 1..12 : cusp_sign(cusps[i]) \notin 0..11}
    IN  IF bad # {}
        THEN Err("InvalidHouse", cusp_sign(cusps[CHOOSE i \in bad : \A j \in bad : i <= j]))
        ELSE Ok([i \in 1..12 |-> sign_lord(cusp_sign(cusps[i]))])

\* Houses.lords of calculate_houses
calculate_houses_lords(a) == determine_house_lords(calculate_whole_sign_houses(a))

InitHouseLords ==
    /\ asc \in AscInputs
    /\ lon = 0
    /\ moon_longitude = 0
    /\ birth_jd = 0
    /\ planets = <<>>
    /\ args = NoArgs
    /\ result = NoResult

DetermineHouseLords ==
    /\ result' = [fn |-> "determine_house_lords", val |-> calculate_houses_lords(asc)]
    /\ UNCHANGED <<asc, lon, moon_longitude, birth_jd, planets, args>>

\* The lord calculate_bhava_bala looks up for house_num
GetHouseLord(house_num) ==
    /\ result' = [fn |-> "get_house_lord",
                  val |-> [house |-> house_num, lord |-> get_house_lord(house_num)]]
    /\ UNCHANGED <<asc, lon, moon_longitude, birth_jd, planets, args>>

NextHouseLords ==
    \/ DetermineHouseLords
    \/ \E house_num \in 1..12 : GetHouseLord(house_num)

SpecHouseLords == InitHouseLords /\ [][NextHouseLords]_vars

\* C28: the lord calculate_bhava_bala uses for a house (get_house_lord) is the
\* lord determine_house_lords assigns to that house in the same chart: the ruler
\* of the sign on the house's whole-sign cusp.
C28_BhavaLordIsCuspSignLord ==
    result.fn = "get_house_lord" =>
        /\ calculate_houses_lords(asc).ok
        /\ result.val.lord = calculate_houses_lords(asc).value[result.val.house]

\* determine_house_lords assigns every house the ruler of the sign on its cusp,
\* counted from the ascendant's sign
C28_LordsFollowTheAscendantSign ==
    result.fn = "determine_house_lords" =>
        /\ result.val.ok
        /\ \A h \in 1..12 :
               result.val.value[h] = sign_lord((((asc.deg % 360) \div 30) + h - 1) % 12)

\* The two agree on every house when the ascendant is in Aries
C28_AgreeWithAriesAscendant ==
    (result.fn = "get_house_lord" /\ (asc.deg % 360) < 30) =>
        result.val.lord = calculate_houses_lords(asc).value[result.val.house]


(***************************************************************************)
(* Ashtakavarga of a full placement of the seven classical planets         *)
(***************************************************************************)
\* The seven classical planets in the signs given by `signs` (indexed 1..7 in
\* the order of Bodies), each PlanetDegree whole degrees into its sign
seven_planets(signs) ==
    [b \in 1..7 |-> [name |-> Bodies[b],
                     sidereal_long_deg |-> signs[b] * SignSpan + (PlanetDegree % 30) * Micro]]

\* Placements: Sun, Moon and Mars in every combination of signs, the four other
\* planets in signs derived from those three
SevenPlanetInputs ==
    {seven_planets(<<a, b, c, (a + b) % 12, (b + c) % 12, (a + c) % 12, (a + b + c) % 12>>) :
        a \in 0..11, b \in 0..11, c \in 0..11}

InitAshtakavargaSeven ==
    /\ asc = [deg |-> 0, frac |-> 0]
    /\ lon = 0
    /\ moon_longitude = 0
    /\ birth_jd = 0
    /\ planets \in SevenPlanetInputs
    /\ args = NoArgs
    /\ result = NoResult

NextAshtakavargaSeven == CalculateCompleteAshtakavarga

SpecAshtakavargaSeven == InitAshtakavargaSeven /\ [][NextAshtakavargaSeven]_vars

\* The sum of the twelve cells of a row
RowSum(row) == SumOver(row, 0..11)

\* C30: for every placement of the seven classical planets, each row of the
\* ashtakavarga chart sums to the size of its planet's beneficial table (Sun 8,
\* Moon 6, Mars 8, Mercury 9, Jupiter 9, Venus 9, Saturn 7) and the sarva row
\* sums to 56.
C30_RowSumsAndSarvaTotal ==
    (/\ IsAshtakavargaResult
     /\ Len(planets) = 7
     /\ DistinctNames(planets)
     /\ \A i \in 1..7 : planets[i].name \in ClassicalPlanets) =>
        /\ RowSum(result.val.sun) = 8
        /\ RowSum(result.val.moon) = 6
        /\ RowSum(result.val.mars) = 8
        /\ RowSum(result.val.mercury) = 9
        /\ RowSum(result.val.jupiter) = 9
        /\ RowSum(result.val.venus) = 9
        /\ RowSum(result.val.saturn) = 7
        /\ RowSum(result.val.sarva) = 56

\* A chart of all seven planets with the Sun in the twelfth sign: the Sun's
\* bindus wrap into the first signs
C30_Witness ==
    /\ IsAshtakavargaResult
    /\ Len(planets) = 7
    /\ sign_of(planets[1]) = 11
    /\ result.val.sun[0] = 1
    /\ RowSum(result.val.sarva) = 56

====
